---- MODULE Spec2Model ----
(***************************************************************************)
(* The background crawl of the OneDrive music player: the scan coordinator *)
(* (POST /api/music/scan: startBackground, resumeScan), the crawl engine   *)
(* (startBackgroundScan, scanTopLevelFolders, scanFolderRecursive), the    *)
(* remote listing client (fetchAllItemsWithPagination) and the storage     *)
(* adapter (lib/storage.ts, file-backed and Redis-backed) for one user.    *)
(* Every await of the code that touches shared storage is one step, so the *)
(* interleavings of requests and detached workers are those of the code.   *)
(***************************************************************************)
EXTENDS Integers, Sequences, FiniteSets, TLC

\* ------------------------------------------------------------------ bounds
MaxIssue == 2        \* requests the clients send in one behaviour
MaxFault == 2        \* faults in one behaviour: a crash of the server process,
                     \* a setScanState that throws, a listing that fails
MaxPages == 3
MaxClock == 2
MaxTick == 2
MaxPending == 2
MaxAlive == 1
MaxPut == 2
MaxName == 5
MaxWrite == 2
MaxRead == 2
MaxTask == 3         \* tasks submitted to withFileLock in one behaviour
MaxClear == 1
MaxChange == 1        \* pages of one listing

\* Request slots; the worker a request starts runs in the slot of its request.
Slots == {1, 2}

\* ------------------------------------------------------- the remote store
\* Paths are the sequences of their segments: <<>> is the root path "",
\* <<"Rock", "Live">> is "/Rock/Live".
Root == <<>>
Undef == <<"undefined">>

File(stem, ext) == [stem |-> stem, ext |-> ext]

Listing(folders, files) == [folders |-> folders, files |-> files]

\* The folders of a full binary tree of depth 3: 14 folders under the root.
TreePaths == UNION {[1..n -> {"a", "b"}] : n \in 0..3}

AllPaths == {Root, <<"Rock">>, <<"Rock", "Live">>, <<"Jazz">>} \cup TreePaths

\* The children the remote store returns for each path (all pages): a library
\* with a nested folder, and a library of one folder.
DeepStore ==
  [p \in AllPaths |->
     IF p = Root THEN Listing(<<"Jazz", "Rock">>, <<File("notes", "txt")>>)
     ELSE IF p = <<"Rock">> THEN Listing(<<"Live">>, <<File("song", "mp3")>>)
     ELSE IF p = <<"Rock", "Live">>
          THEN Listing(<<>>, <<File("gig", "MP3"), File("cover", "jpg")>>)
     ELSE Listing(<<>>, <<>>)]

FlatStore ==
  [p \in AllPaths |->
     IF p = Root THEN Listing(<<"Jazz">>, <<File("notes", "txt")>>)
     ELSE IF p = <<"Jazz">> THEN Listing(<<>>, <<File("song", "mp3")>>)
     ELSE Listing(<<>>, <<>>)]

\* Root folders Rock and Jazz and the file notes.txt; Rock holds song.mp3,
\* Jazz is empty.
ExampleStore ==
  [p \in AllPaths |->
     IF p = Root THEN Listing(<<"Rock", "Jazz">>, <<File("notes", "txt")>>)
     ELSE IF p = <<"Rock">> THEN Listing(<<>>, <<File("song", "mp3")>>)
     ELSE Listing(<<>>, <<>>)]

TreeStore ==
  [p \in AllPaths |->
     IF p \in TreePaths /\ Len(p) < 3
     THEN Listing(<<"a", "b">>, <<File("track", "mp3")>>)
     ELSE IF p \in TreePaths
          THEN Listing(<<>>, <<File("take", "Flac"), File("cover", "jpg")>>)
     ELSE Listing(<<>>, <<>>)]

\* `${currentPath}/${folder.name}`
JoinPath(p, name) == Append(p, name)

\* HTTP statuses a listing request can end in.
Statuses == {200, 401, 404, 500}

\* ------------------------------------------------------------ index builder
ToLowerCase(ext) ==
  IF ext = "MP3" THEN "mp3" ELSE IF ext = "Flac" THEN "flac" ELSE ext

AudioExtensions == {"mp3", "wav", "flac", "m4a", "aac", "ogg"}

\* A filter that keeps every file.
AnyFile(f) == TRUE

IsAudio(f) == ToLowerCase(f.ext) \in AudioExtensions

\* File names character by character, as the filter of the crawl reads them.
LowerLetters ==
  [ch \in {"A", "C", "F", "G", "L", "M", "O", "P", "V", "W"} |->
     CASE ch = "A" -> "a" [] ch = "C" -> "c" [] ch = "F" -> "f" [] ch = "G" -> "g"
       [] ch = "L" -> "l" [] ch = "M" -> "m" [] ch = "O" -> "o" [] ch = "P" -> "p"
       [] ch = "V" -> "v" [] ch = "W" -> "w"]

\* String.prototype.toLowerCase
toLowerCase(s) ==
  [i \in 1..Len(s) |-> IF s[i] \in DOMAIN LowerLetters THEN LowerLetters[s[i]] ELSE s[i]]

\* name.split("."): the pieces between the dots, at least one.
RECURSIVE split(_)
split(s) ==
  IF \A i \in 1..Len(s) : s[i] # "." THEN <<s>>
  ELSE LET d == CHOOSE i \in 1..Len(s) :
                  s[i] = "." /\ \A j \in 1..(i - 1) : s[j] # "."
       IN  <<SubSeq(s, 1, d - 1)>> \o split(SubSeq(s, d + 1, Len(s)))

\* Array.prototype.pop: the last piece
pop(parts) == parts[Len(parts)]

\* ["mp3", "wav", "flac", "m4a", "aac", "ogg"]
AllowList ==
  {<<"m", "p", "3">>, <<"w", "a", "v">>, <<"f", "l", "a", "c">>,
   <<"m", "4", "a">>, <<"a", "a", "c">>, <<"o", "g", "g">>}

\* const extension = item.name?.split(".").pop()?.toLowerCase();
\* return [...].includes(extension)
IsMedia(name) == toLowerCase(pop(split(name))) \in AllowList

NoFilter == [done |-> FALSE, names |-> <<>>, kept |-> <<>>]

\* processedFiles: the audio files of a listing, with their owning path
ProcessedFiles(items, path) ==
  LET audio == SelectSeq(items.files, IsAudio)
  IN  [i \in 1..Len(audio) |-> [name |-> audio[i], path |-> path]]

FolderEntries(items, path) ==
  [i \in 1..Len(items.folders) |-> [name |-> items.folders[i], path |-> path]]

NoRecord == [present |-> FALSE, files |-> <<>>, folders |-> <<>>]

CacheRecord(items, path) ==
  [present |-> TRUE, files |-> ProcessedFiles(items, path),
   folders |-> FolderEntries(items, path)]

\* ------------------------------------------------------------- checkpoint
NoError == ""

Absent ==
  [present |-> FALSE, isScanning |-> FALSE, currentPath |-> Root,
   scannedPaths |-> <<>>, scanedMusicFile |-> 0, scanedFolder |-> 0,
   error |-> NoError, totalTopLevelFolders |-> 0, scannedTopLevelFolders |-> 0,
   topLevelFoldersPaths |-> <<>>, currentTopLevelFolder |-> Undef, scaned |-> 0,
   lastUpdate |-> 0,
   \* the object is the "{}" a clear leaves: it has none of the fields Priming sets
   blank |-> FALSE]

\* What getScanState returns after the file-backed clearScanState wrote "{}".
Blank == [Absent EXCEPT !.present = TRUE, !.blank = TRUE]

\* The TypeError thrown on reading a property of, or spreading, undefined.
TypeError == "TypeError"

\* state.lastUpdate = Date.now()
Stamp(state, now) == [state EXCEPT !.lastUpdate = now]

\* `(await getScanState(userId)) || fallback`
OrElse(state, fallback) == IF state.present THEN state ELSE fallback

\* Array.from(new Set([...scannedPaths, currentPath]))
AddUnique(seq, x) ==
  IF \E i \in 1..Len(seq) : seq[i] = x THEN seq ELSE Append(seq, x)

ErrorMessage(status) ==
  IF status = 401 THEN "Graph API error: 401"
  ELSE IF status = 404 THEN "Graph API error: 404"
  ELSE "Graph API error: 500"

StorageError == "storage write failed"

\* msg.includes("401")
Includes401(msg) == msg = "Graph API error: 401"

\* --------------------------------------------------- remote listing client
\* The status fetchAllItemsWithPagination ends a page request with: a 401 is
\* retried once on the same URL when the token refresh returned a token.
FinalStatus(first, refreshed, second) ==
  IF first = 401 /\ refreshed THEN second ELSE first

\* fetchAllItemsWithPagination(accessToken, path): the items, or the Error
\* thrown on a response that is not ok.
FetchAll(store, path, first, refreshed, second) ==
  LET status == FinalStatus(first, refreshed, second)
  IN  IF status = 200
      THEN [ok |-> TRUE, items |-> store[path], err |-> NoError, status |-> status]
      ELSE [ok |-> FALSE, items |-> Listing(<<>>, <<>>),
            err |-> ErrorMessage(status), status |-> status]

\* ------------------------------------------------------------------- state
VARIABLES
  remote,      \* the remote store: the listing of every path
  backend,     \* "file" | "redis": the storage adapter the deployment uses
  cp,          \* the persisted checkpoint (scan-state.json / user:<id>:scan-state)
  lock,        \* the scan lock: 0 when absent, else the slot that wrote it
  cache,       \* the persisted CacheRecord of every path
  rq,          \* the POST requests in flight, by slot
  wk,          \* the detached crawl workers, by slot
  budget,      \* what the environment may still do: requests and faults
  staleWrite,  \* history: the last checkpoint write stored a stale snapshot
  clock,       \* what Date.now() returns
  sse,         \* one subscription of the progress stream (GET /api/music/scan/stream)
  pg,          \* one call of fetchAllItemsWithPagination, page by page
  env,         \* the DELETE request in flight; the clears and library changes to come
  settings,    \* the stored user settings and the settings request in flight
  disk,        \* what the storage adapter holds, by file path or Redis key
  call,        \* one run of the audio filter: the names listed and those kept
  io           \* the storage adapter's operations in flight and what readers saw

vars ==
  <<remote, backend, cp, lock, cache, rq, wk, budget, staleWrite, clock, sse, pg, env,
    settings, disk, call, io>>

\* What the coordinator and the crawl engine leave alone.
rest == <<clock, sse, pg, env, settings, disk, call, io>>

\* What the coordinator and the crawl engine work on.
crawl == <<remote, backend, cp, lock, cache, rq, wk, budget, staleWrite>>

NoLock == 0

\* No subscriber is connected to the progress stream.
NoSub ==
  [pc |-> "none", isClosed |-> FALSE, pollInterval |-> FALSE,
   keepAliveInterval |-> FALSE, lastVersion |-> 0, reads |-> <<>>,
   usable |-> FALSE, out |-> <<>>, ticks |-> 0,
   \* history: a send read the version of the last data frame and emitted nothing
   same |-> FALSE]

\* fetchAllItemsWithPagination is not being called.
NoCall ==
  [pc |-> "idle", pages |-> 0, page |-> 0, token |-> "given", items |-> <<>>,
   err |-> NoError, log |-> <<>>]

\* No DELETE request is in flight and none is to come; the library stays as it is.
Calm == [del |-> "idle", clears |-> 0, changes |-> 0, puts |-> 0]

\* No settings request is in flight.
NoPut == [pc |-> "idle", method |-> "POST", given |-> "", changing |-> FALSE,
          status |-> 0, cleared |-> FALSE]

\* No settings are stored: getUserSettings returns the default, musicRootPath "".
NoSettings == [musicRootPath |-> "", put |-> NoPut]

IdleReq ==
  [pc |-> "idle", kind |-> "start", force |-> FALSE, existing |-> Absent,
   branch |-> "none", resp |-> "none", stale |-> FALSE,
   \* history of this request
   lockFailed |-> FALSE, spawned |-> FALSE]

IdleW ==
  [pc |-> "idle", mode |-> "none", param |-> Absent, fresh |-> Absent,
   pre |-> Absent, preAlias |-> FALSE, snap |-> Absent, snapAlias |-> FALSE,
   index |-> 0, paths |-> <<>>, queue |-> <<>>, visited |-> {}, cur |-> Undef,
   attempt |-> 0, ok |-> FALSE, err |-> NoError, upd |-> "none", ret |-> "none",
   nfiles |-> 0,
   stale |-> FALSE,
   \* history of this run
   from |-> "none", k |-> 0, preFiles |-> 0, preFolders |-> 0, primed |-> FALSE,
   rootStatus |-> 0, tried |-> {}, failed |-> {}, retried |-> {},
   failMsg |-> NoError, storeFailed |-> FALSE, base |-> <<0, 0>>, gains |-> {},
   retryMsg |-> NoError, retryToken |-> FALSE,
   \* the folders the current traversal has listed, and those it has stored
   listed |-> <<>>, written |-> <<>>]

\* The checkpoint and the cache an earlier run has left: nothing, or what the
\* run on FlatStore leaves that was stopped by a setScanState that threw
\* before its first folder (PartialLeft: SpecSolo reaches it).
PartialCheckpoint ==
  [present |-> TRUE, isScanning |-> FALSE, currentPath |-> Root,
   scannedPaths |-> <<>>, scanedMusicFile |-> 0, scanedFolder |-> 0,
   error |-> StorageError, totalTopLevelFolders |-> 1,
   scannedTopLevelFolders |-> 0, topLevelFoldersPaths |-> << <<"Jazz">> >>,
   currentTopLevelFolder |-> <<"Jazz">>, scaned |-> 0,
   lastUpdate |-> 1, blank |-> FALSE]

EmptyCache == [p \in AllPaths |-> NoRecord]

PartialCache ==
  [p \in AllPaths |->
     IF p = Root THEN CacheRecord(FlatStore[Root], Root) ELSE NoRecord]

\* ------------------------------------------------------- storage by user
\* The ids Microsoft Graph gives two users, and what is stored for each.
Users == {"A", "B"}
Kinds == {"scan-state", "scan:lock", "music-cache", "settings"}

\* path.join(DATA_DIR, "users", userId)
getUserCacheDir(userId) == <<".cache", "users", userId>>

FileName(kind) ==
  CASE kind = "scan-state" -> "scan-state.json"
    [] kind = "scan:lock" -> "scan.lock"
    [] kind = "music-cache" -> "music-cache.json"
    [] kind = "settings" -> "user-settings.json"

\* A storage adapter that keeps one entry of each kind for everybody.
SharedKey(b, userId, kind) == <<"user", kind>>

\* getUserScanStateFile, getScanLockFile, ... (file-backed) and keyForScanState,
\* keyForScanLock, ... (Redis): where the entry of a kind is kept for a user.
StorageKey(b, userId, kind) ==
  IF b = "file"
  THEN Append(getUserCacheDir(userId), FileName(kind))
  ELSE <<"user", userId, kind>>

AllKeys(b) == {StorageKey(b, u, kind) : u \in Users, kind \in Kinds}

\* What a file or key holds: nothing, one of two written contents, or the
\* "{}" the file-backed adapter writes to clear.
NoEntry == ""
Contents == {"v1", "v2"}
ClearedEntry(b) == IF b = "file" THEN "{}" ELSE NoEntry

NoDisk(b) == [data |-> [k \in AllKeys(b) |-> NoEntry], by |-> "none"]

\* What user userId reads of a kind.
ReadEntry(d, b, userId, kind) == d.data[StorageKey(b, userId, kind)]

\* writeJsonAtomic: "for (let attempt = 0; attempt < 5; attempt++)"
RenameAttempts == 5

\* One storeMusicData call: where it is in writeJsonAtomic, the text it
\* writes, the text the file held when it began, whether its tmp file exists.
NoWrite ==
  [pc |-> "idle", attempt |-> 0, json |-> NoEntry, prev |-> NoEntry, tmp |-> FALSE,
   left |-> MaxWrite]

\* One read-modify-write call: updateScanState, or a settings update.
NoRmw == [pc |-> "idle", key |-> "scan-state", field |-> "", snap |-> {}]

Callers == {1, 2}

\* The fields a stored document has been given by updates, by key.
NoDocs == [key \in {"scan-state", "settings"} |-> {}]

\* The files withFileLock is called for, and the promises it handles.
FilePaths == {"scan-state.json", "music-cache.json"}

Resolved == [kind |-> "resolved", of |-> 0]
Chained(k) == [kind |-> "chain", of |-> k]
NextOf(k) == [kind |-> "next", of |-> k]
NoPromise == [kind |-> "none", of |-> 0]

\* const fileQueues = new Map<string, Promise<void>>(), and the calls made.
NoQueues == [map |-> [p \in FilePaths |-> NoPromise], tasks |-> <<>>]

NoIo ==
  [w |-> NoWrite, seen |-> {}, reads |-> MaxRead,
   rmw |-> [i \in Callers |-> NoRmw], doc |-> NoDocs, fq |-> NoQueues]

InitAll(stores, left, issues, faults, e) ==
  /\ remote \in stores
  /\ backend \in {"file", "redis"}
  /\ \/ cp = Absent /\ cache = EmptyCache
     \/ left /\ cp = PartialCheckpoint /\ cache = PartialCache
  /\ lock = NoLock
  /\ rq = [s \in Slots |-> IdleReq]
  /\ wk = [s \in Slots |-> IdleW]
  /\ budget = [issue |-> issues, fault |-> faults]
  /\ staleWrite = FALSE
  /\ clock = 1
  /\ sse = NoSub
  /\ pg = NoCall
  /\ env = e
  /\ settings = NoSettings
  /\ disk = NoDisk(backend)
  /\ call = NoFilter
  /\ io = NoIo

InitWith(stores, left, issues, faults) == InitAll(stores, left, issues, faults, Calm)

\* Concurrent requests on what an earlier run has left, no faults.
Init == InitWith({FlatStore}, TRUE, MaxIssue, 0)

\* A fresh deployment whose server can crash and whose storage and remote
\* store can fail.
InitSolo == InitWith({DeepStore, FlatStore}, FALSE, MaxIssue, MaxFault)

Active(s) == wk[s].pc # "idle"

InFlight(s) == rq[s].pc \notin {"idle", "done"}

\* An actor that holds a snapshot of the checkpoint learns nothing of a write.
StaledReq(q) == IF q.pc \in {"idle", "done"} THEN q ELSE [q EXCEPT !.stale = TRUE]

StaledW(w) == IF w.pc = "idle" THEN w ELSE [w EXCEPT !.stale = TRUE]

\* --------------------------------------------------------- storage adapter
\* hasScanLock(userId)
HasScanLock(l) == l # NoLock

\* acquireScanLock(userId): the file-backed variant writes the lock file
\* whether or not it exists; the Redis variant is SET NX EX.
AcquireScanLock(b, l) == IF b = "file" THEN TRUE ELSE l = NoLock

\* updateScanState(userId, updates): { ...currentState, ...updates }
ApplyUpdates(current, w) ==
  IF w.upd = "currentPath" THEN [current EXCEPT !.currentPath = w.cur]
  ELSE IF w.upd = "error" THEN [current EXCEPT !.error = w.err]
  ELSE [current EXCEPT !.error = w.err, !.isScanning = FALSE]

\* A store that adds the entries of a listing to those the path already has.
AppendMusicData(c, path, data) ==
  [c EXCEPT ![path] = [present |-> TRUE, files |-> @.files \o data.files,
                       folders |-> @.folders \o data.folders]]

\* storeMusicData(userId, path, data): cache[path] = data
StoreMusicData(c, path, data) == [c EXCEPT ![path] = data]

\* -------------------------------------------------------- scan coordinator
\* A coordinator that never sees a scan running.
NeverRunning(existing) == FALSE

\* existing?.isScanning
AlreadyRunning(existing) == existing.present /\ existing.isScanning

\* A coordinator that resumes whatever forceRestart says.
ResumeEvenIfForced(existing, forceRestart) ==
  /\ existing.present
  /\ existing.scannedTopLevelFolders < existing.totalTopLevelFolders
  /\ Len(existing.topLevelFoldersPaths) > 0

\* "If we have previous progress and not forcing restart, resume instead"
ShouldResume(existing, forceRestart) ==
  /\ existing.present
  /\ ~forceRestart
  /\ existing.scannedTopLevelFolders < existing.totalTopLevelFolders
  /\ Len(existing.topLevelFoldersPaths) > 0

\* A resume that is refused only when there is no checkpoint at all.
OnlyIfMissing(scanState) == ~scanState.present

\* resumeBackgroundScan: !scanState || !scanState.isScanning
NoActiveScan(scanState) == ~scanState.present \/ ~scanState.isScanning

\* The responses of POST: the message and the status sent with it.
MsgAlready == "Scan already in progress"
MsgLocked == "Scan lock present; another scan is starting/running"
MsgResuming == "Resuming previous scan"
MsgStarted == "Background scan started"
MsgNoActive == "No active scan to resume"
MsgResumed == "Scan resumed"

StatusOf(message) ==
  IF message = MsgLocked THEN "locked"
  ELSE IF message = MsgResumed THEN "resumed"
  ELSE IF message = MsgNoActive THEN "none"
  ELSE "scanning"

\* The message POST sends after the acquireScanLock of a branch, acquired or not.
BranchMessage(branch) ==
  IF branch = "resume" THEN MsgResuming
  ELSE IF branch = "fresh" THEN MsgStarted
  ELSE MsgResumed

\* A client sends POST {startBackground, forceRestart} or POST {resumeScan}.
NewRequest(kind, force) ==
  [IdleReq EXCEPT !.pc = "read", !.kind = kind, !.force = force]

Issue(s) ==
  /\ budget.issue > 0
  /\ ~InFlight(s) /\ ~Active(s)
  /\ \E kind \in {"start", "resume"}, force \in BOOLEAN :
       /\ kind = "resume" => ~force
       /\ rq' = [rq EXCEPT ![s] = NewRequest(kind, force)]
  /\ budget' = [budget EXCEPT !.issue = @ - 1]
  /\ UNCHANGED <<rest, remote, backend, cp, lock, cache, wk, staleWrite>>

\* const existing = await getScanState(userId), and the first decision on it.
AfterRead(q, existing) ==
  IF q.kind = "start"
  THEN IF AlreadyRunning(existing)
       THEN [q EXCEPT !.pc = "done", !.resp = MsgAlready, !.existing = existing,
                      !.stale = FALSE]
       ELSE [q EXCEPT !.pc = "haslock", !.existing = existing, !.stale = FALSE]
  ELSE IF NoActiveScan(existing)
       THEN [q EXCEPT !.pc = "done", !.resp = MsgNoActive, !.existing = existing,
                      !.stale = FALSE]
       ELSE [q EXCEPT !.pc = "acquire", !.branch = "explicit",
                      !.existing = existing, !.stale = FALSE]

ReqRead(s) ==
  /\ rq[s].pc = "read"
  /\ rq' = [rq EXCEPT ![s] = AfterRead(rq[s], cp)]
  /\ UNCHANGED <<rest, remote, backend, cp, lock, cache, wk, budget, staleWrite>>

\* if (await hasScanLock(userId)) ... and the choice of resume or fresh start.
AfterHasLock(q, locked) ==
  IF locked
  THEN [q EXCEPT !.pc = "done", !.resp = MsgLocked]
  ELSE IF ShouldResume(q.existing, q.force)
       THEN [q EXCEPT !.pc = "set", !.branch = "resume"]
       ELSE [q EXCEPT !.pc = "acquire", !.branch = "fresh"]

ReqHasLock(s) ==
  /\ rq[s].pc = "haslock"
  /\ rq' = [rq EXCEPT ![s] = AfterHasLock(rq[s], HasScanLock(lock))]
  /\ UNCHANGED <<rest, remote, backend, cp, lock, cache, wk, budget, staleWrite>>

\* existing.isScanning = true; await setScanState(userId, existing)
ResumedState(existing) == [existing EXCEPT !.isScanning = TRUE]

ReqSet(s) ==
  /\ rq[s].pc = "set"
  /\ LET q == rq[s]
         state == Stamp(ResumedState(q.existing), clock)
     IN  /\ cp' = state
         /\ staleWrite' = q.stale
         /\ rq' = [x \in Slots |->
                     IF x = s
                     THEN [q EXCEPT !.pc = "acquire", !.existing = state,
                                    !.stale = FALSE]
                     ELSE StaledReq(rq[x])]
         /\ wk' = [x \in Slots |-> StaledW(wk[x])]
  /\ UNCHANGED <<rest, remote, backend, lock, cache, budget>>

\* The detached task a request starts: scanTopLevelFolders(accessToken, userId,
\* existing) to resume, startBackgroundScan(accessToken, userId) to start fresh.
Spawn(q) ==
  IF q.branch = "fresh"
  THEN [IdleW EXCEPT !.pc = "prime_list", !.mode = "fresh", !.from = "fresh"]
  ELSE [IdleW EXCEPT !.pc = "top_start", !.mode = "resume", !.from = q.branch,
                     !.param = q.existing,
                     !.k = q.existing.scannedTopLevelFolders,
                     !.preFiles = q.existing.scanedMusicFile,
                     !.preFolders = q.existing.scanedFolder]

\* if (await acquireScanLock(userId)) { <task>.finally(() => releaseScanLock(userId)) }
\* return NextResponse.json(...)
ReqAcquire(s) ==
  /\ rq[s].pc = "acquire"
  /\ LET q == rq[s]
         got == AcquireScanLock(backend, lock)
     IN  /\ lock' = IF got THEN s ELSE lock
         /\ wk' = IF got THEN [wk EXCEPT ![s] = Spawn(q)] ELSE wk
         /\ rq' = [rq EXCEPT ![s] = [q EXCEPT !.pc = "done",
                                              !.resp = BranchMessage(q.branch),
                                              !.spawned = got,
                                              !.lockFailed = ~got]]
  /\ UNCHANGED <<rest, remote, backend, cp, cache, budget, staleWrite>>

\* ------------------------------------------------------------ crawl engine
\* A write of the checkpoint by worker s: every other actor's snapshot is now
\* older than the persisted value.
WriteBy(s, w, state, stale) ==
  /\ cp' = state
  /\ staleWrite' = stale
  /\ wk' = [x \in Slots |-> IF x = s THEN [w EXCEPT !.stale = FALSE]
                            ELSE StaledW(wk[x])]
  /\ rq' = [x \in Slots |-> StaledReq(rq[x])]

\* mainFolders.map((f) => `${mainLibraryPath}/${f.name}`)
TopLevelFoldersPaths(items, root) ==
  [i \in 1..Len(items.folders) |-> JoinPath(root, items.folders[i])]

\* The checkpoint startBackgroundScan creates after Priming.
InitialScanState(root, paths) ==
  [present |-> TRUE, isScanning |-> TRUE, currentPath |-> root,
   scannedPaths |-> <<>>, scanedMusicFile |-> 0, scanedFolder |-> 0,
   error |-> NoError, totalTopLevelFolders |-> Len(paths),
   scannedTopLevelFolders |-> 0, topLevelFoldersPaths |-> paths,
   currentTopLevelFolder |-> IF Len(paths) > 0 THEN paths[1] ELSE Undef,
   scaned |-> 0, lastUpdate |-> 0, blank |-> FALSE]

\* startBackgroundScan: list the root path and store its CacheRecord; a listing
\* that throws goes to the catch, which records the message with updateScanState.
AfterPrimeList(w, r) ==
  IF r.ok
  THEN [w EXCEPT !.pc = "prime_set", !.rootStatus = r.status,
                 !.paths = TopLevelFoldersPaths(r.items, Root)]
  ELSE [w EXCEPT !.pc = "upd", !.upd = "error", !.err = r.err,
                 !.ret = "release", !.rootStatus = r.status]

PrimeList(s) ==
  /\ wk[s].pc = "prime_list"
  /\ \E first \in Statuses, refreshed \in BOOLEAN, second \in Statuses :
       LET r == FetchAll(remote, Root, first, refreshed, second)
       IN  /\ ~r.ok => budget.fault > 0
           /\ budget' = IF r.ok THEN budget ELSE [budget EXCEPT !.fault = @ - 1]
           /\ cache' = IF r.ok
                       THEN StoreMusicData(cache, Root, CacheRecord(r.items, Root))
                       ELSE cache
           /\ wk' = [wk EXCEPT ![s] = AfterPrimeList(wk[s], r)]
  /\ UNCHANGED <<rest, remote, backend, cp, lock, rq, staleWrite>>

PrimeSet(s) ==
  /\ wk[s].pc = "prime_set"
  /\ LET state == Stamp(InitialScanState(Root, wk[s].paths), clock)
     IN  WriteBy(s, [wk[s] EXCEPT !.pc = "top_start", !.param = state,
                                  !.primed = TRUE], state, FALSE)
  /\ UNCHANGED <<rest, remote, backend, lock, cache, budget>>

\* An engine that starts its loop over at the first top-level folder.
StartAtFirst(freshState) == 0

\* The index scanTopLevelFolders starts its loop at.
StartIndex(freshState) == freshState.scannedTopLevelFolders

\* for (...; index < topLevelFoldersPaths.length && scanState.isScanning; ...)
LoopHead(w) ==
  IF w.index < Len(w.paths) /\ w.param.isScanning
  THEN [w EXCEPT !.pc = "pre_read"]
  ELSE [w EXCEPT !.pc = "done_read"]

\* topLevelFoldersPaths.length of a state that has no topLevelFoldersPaths
\* throws; the catch of scanTopLevelFolders records the message.
LoopFailure(w) ==
  [w EXCEPT !.pc = "upd", !.upd = "errorStop", !.err = TypeError, !.ret = "release"]

\* let freshState = (await getScanState(userId)) || scanState
TopStart(s) ==
  /\ wk[s].pc = "top_start"
  /\ LET freshState == OrElse(cp, wk[s].param)
     IN  wk' = [wk EXCEPT ![s] =
                  IF freshState.blank
                  THEN LoopFailure([@ EXCEPT !.fresh = freshState, !.stale = FALSE])
                  ELSE LoopHead([@ EXCEPT !.fresh = freshState, !.stale = FALSE,
                                          !.paths = freshState.topLevelFoldersPaths,
                                          !.index = StartIndex(freshState)])]
  /\ UNCHANGED <<rest, remote, backend, cp, lock, cache, rq, budget, staleWrite>>

\* const preState = (await getScanState(userId)) || freshState
PreRead(s) ==
  /\ wk[s].pc = "pre_read"
  /\ wk' = [wk EXCEPT ![s] = [@ EXCEPT !.pc = "pre_write", !.stale = FALSE,
                                       !.pre = OrElse(cp, wk[s].fresh),
                                       !.preAlias = ~cp.present]]
  /\ UNCHANGED <<rest, remote, backend, cp, lock, cache, rq, budget, staleWrite>>

\* scanFolderRecursive, line 382-385: skip the queued paths already visited.
RECURSIVE Dequeue(_, _)
Dequeue(queue, visited) ==
  IF queue = <<>> THEN [found |-> FALSE, cur |-> Undef, queue |-> queue]
  ELSE IF Head(queue) \in visited THEN Dequeue(Tail(queue), visited)
  ELSE [found |-> TRUE, cur |-> Head(queue), queue |-> Tail(queue)]

\* while (queue.length > 0 && scanState.isScanning): the next folder to process,
\* or the end of the traversal (scannedOk = true).
BfsHead(w) ==
  LET d == Dequeue(w.queue, w.visited)
  IN  IF w.fresh.isScanning /\ d.found
      THEN [w EXCEPT !.pc = "upd", !.upd = "currentPath", !.ret = "bfs_list",
                     !.cur = d.cur, !.queue = d.queue,
                     !.visited = @ \cup {d.cur}]
      ELSE [w EXCEPT !.pc = "post_read", !.ok = TRUE, !.queue = <<>>,
                     !.visited = {}, !.cur = Undef]

\* scanFolderRecursive(accessToken, userId, topLevelPath, freshState)
StartTraversal(w, attempt) ==
  BfsHead([w EXCEPT !.queue = <<w.paths[w.index + 1]>>, !.visited = {},
                    !.attempt = attempt, !.ok = FALSE,
                    !.listed = <<>>, !.written = <<>>])

\* The handler a setScanState that throws in scanTopLevelFolders ends in.
StoreFailure(w) ==
  [w EXCEPT !.pc = "upd", !.upd = "errorStop", !.err = StorageError,
            !.ret = "release", !.storeFailed = TRUE]

\* preState.currentTopLevelFolder = topLevelPath; preState.currentPath = topLevelPath
PreState(preState, topLevelPath) ==
  [preState EXCEPT !.currentTopLevelFolder = topLevelPath,
                   !.currentPath = topLevelPath]

PreWrite(s) ==
  /\ wk[s].pc = "pre_write"
  /\ LET w == wk[s]
         state == Stamp(PreState(w.pre, w.paths[w.index + 1]), clock)
     IN  \E fails \in BOOLEAN :
           IF fails
           THEN /\ budget.fault > 0
                /\ budget' = [budget EXCEPT !.fault = @ - 1]
                /\ wk' = [wk EXCEPT ![s] = StoreFailure(w)]
                /\ UNCHANGED <<cp, rq, staleWrite>>
           ELSE /\ WriteBy(s, StartTraversal(
                                [w EXCEPT !.pre = state,
                                          !.fresh = IF w.preAlias THEN state ELSE @,
                                          !.tried = @ \cup {w.index},
                                          !.base = <<state.scanedFolder,
                                                     state.scanedMusicFile>>], 1),
                           state, w.stale)
                /\ UNCHANGED budget
  /\ UNCHANGED <<rest, remote, backend, lock, cache>>

\* updateScanState(userId, updates). File-backed: the read and the write run
\* as one task of the file's queue. Redis: a get, then a set of the merge.
Update(s) ==
  /\ wk[s].pc = "upd"
  /\ LET w == wk[s]
     IN  IF ~cp.present
         THEN /\ wk' = [wk EXCEPT ![s] = [w EXCEPT !.pc = w.ret, !.stale = FALSE]]
              /\ UNCHANGED <<cp, rq, staleWrite>>
         ELSE IF backend = "file"
         THEN WriteBy(s, [w EXCEPT !.pc = w.ret], ApplyUpdates(cp, w), FALSE)
         ELSE /\ wk' = [wk EXCEPT ![s] = [w EXCEPT !.pc = "upd_set", !.snap = cp,
                                                   !.stale = FALSE]]
              /\ UNCHANGED <<cp, rq, staleWrite>>
  /\ UNCHANGED <<rest, remote, backend, lock, cache, budget>>

UpdateSet(s) ==
  /\ wk[s].pc = "upd_set"
  /\ LET w == wk[s]
     IN  WriteBy(s, [w EXCEPT !.pc = w.ret, !.snap = Absent],
                 ApplyUpdates(w.snap, w), w.stale)
  /\ UNCHANGED <<rest, remote, backend, lock, cache, budget>>

\* An engine whose listing failure ends the whole run in the outer handler.
AbortRun(w, err) ==
  [w EXCEPT !.pc = "upd", !.upd = "errorStop", !.err = err, !.ret = "release",
            !.queue = <<>>, !.visited = {}, !.cur = Undef, !.nfiles = 0,
            !.failed = @ \cup {w.index}, !.failMsg = err]

\* The traversal of the current top-level folder is given up: scannedOk stays
\* false and scanTopLevelFolders goes on after its try/catch.
Abandon(w, err) ==
  [w EXCEPT !.pc = "post_read", !.ok = FALSE, !.queue = <<>>, !.visited = {},
            !.cur = Undef, !.nfiles = 0,
            !.failed = @ \cup {w.index}, !.failMsg = err]

\* The retry of the current top-level folder with the refreshed token.
Retry(w, err, refreshed) ==
  StartTraversal([w EXCEPT !.retried = @ \cup {w.index}, !.nfiles = 0,
                           !.retryMsg = err, !.retryToken = refreshed], 2)

\* An engine that retries a top-level folder after any failure of its first
\* traversal.
RetryAnyError(w, err, refreshed) ==
  IF w.attempt = 1 THEN Retry(w, err, refreshed) ELSE Abandon(w, err)

\* catch (err) of scanTopLevelFolders: a message with "401" and a refreshed
\* token retry the whole top-level folder once; anything else is logged.
AfterSubtreeError(w, err, refreshed) ==
  IF w.attempt = 1 /\ Includes401(err) /\ refreshed
  THEN Retry(w, err, refreshed)
  ELSE Abandon(w, err)

\* An engine that puts the child folders at the front of its queue.
RECURSIVE PushFront(_, _, _, _)
PushFront(queue, visited, path, folders) ==
  IF folders = <<>> THEN queue
  ELSE LET subPath == JoinPath(path, Head(folders))
           tail == PushFront(queue, visited, path, Tail(folders))
       IN  IF subPath \in visited THEN tail ELSE <<subPath>> \o tail

\* folders.forEach((folder) => { if (!visited.has(subPath)) queue.push(subPath) })
RECURSIVE Enqueue(_, _, _, _)
Enqueue(queue, visited, path, folders) ==
  IF folders = <<>> THEN queue
  ELSE LET subPath == JoinPath(path, Head(folders))
       IN  Enqueue(IF subPath \in visited THEN queue ELSE Append(queue, subPath),
                   visited, path, Tail(folders))

\* The listing of currentPath, its CacheRecord and its child folders.
AfterList(w, r) ==
  [w EXCEPT !.pc = "bfs_read",
            !.nfiles = Len(ProcessedFiles(r.items, w.cur)),
            !.queue = Enqueue(w.queue, w.visited, w.cur, r.items.folders)]

BfsList(s) ==
  /\ wk[s].pc = "bfs_list"
  /\ \E first \in Statuses, refreshed \in BOOLEAN, second \in Statuses,
        retryToken \in BOOLEAN :
       LET r == FetchAll(remote, wk[s].cur, first, refreshed, second)
           w == [wk[s] EXCEPT !.listed = Append(@, wk[s].cur),
                              !.written = IF r.ok THEN Append(@, wk[s].cur) ELSE @]
       IN  /\ ~r.ok => budget.fault > 0
           /\ budget' = IF r.ok THEN budget ELSE [budget EXCEPT !.fault = @ - 1]
           /\ cache' = IF r.ok
                       THEN StoreMusicData(cache, w.cur, CacheRecord(r.items, w.cur))
                       ELSE cache
           /\ wk' = [wk EXCEPT ![s] = IF r.ok THEN AfterList(w, r)
                                      ELSE AfterSubtreeError(w, r.err, retryToken)]
  /\ UNCHANGED <<rest, remote, backend, cp, lock, rq, staleWrite>>

\* const latest = (await getScanState(userId)) || scanState
BfsRead(s) ==
  /\ wk[s].pc = "bfs_read"
  /\ wk' = [wk EXCEPT ![s] = [@ EXCEPT !.pc = "bfs_write", !.stale = FALSE,
                                       !.snap = OrElse(cp, wk[s].fresh),
                                       !.snapAlias = ~cp.present]]
  /\ UNCHANGED <<rest, remote, backend, cp, lock, cache, rq, budget, staleWrite>>

\* The per-folder statistics written after a folder is processed.
LatestState(latest, currentPath, nfiles) ==
  [latest EXCEPT !.scannedPaths = AddUnique(@, currentPath),
                 !.scanedMusicFile = @ + nfiles,
                 !.scanedFolder = @ + 1,
                 !.currentPath = currentPath]

BfsWrite(s) ==
  /\ wk[s].pc = "bfs_write"
  /\ LET w == wk[s]
         state == Stamp(LatestState(w.snap, w.cur, w.nfiles), clock)
     IN  IF w.snap.blank
         THEN \* [...latest.scannedPaths, currentPath] throws: not iterable
              /\ wk' = [wk EXCEPT ![s] =
                         AfterSubtreeError([w EXCEPT !.snap = Absent], TypeError, FALSE)]
              /\ UNCHANGED <<cp, rq, staleWrite>>
         ELSE WriteBy(s, BfsHead([w EXCEPT !.snap = Absent, !.snapAlias = FALSE,
                                          !.nfiles = 0,
                                          !.fresh = IF w.snapAlias THEN state ELSE @]),
                      state, w.stale)
  /\ UNCHANGED <<rest, remote, backend, lock, cache, budget>>

\* const postState = (await getScanState(userId)) || preState
PostRead(s) ==
  /\ wk[s].pc = "post_read"
  /\ wk' = [wk EXCEPT ![s] =
              [@ EXCEPT !.pc = "post_write", !.stale = FALSE,
                        !.snap = OrElse(cp, IF wk[s].preAlias THEN wk[s].fresh
                                            ELSE wk[s].pre)]]
  /\ UNCHANGED <<rest, remote, backend, cp, lock, cache, rq, budget, staleWrite>>

\* postState.scannedTopLevelFolders = index + 1; postState.scaned = the same
PostState(postState, index) ==
  [postState EXCEPT !.scannedTopLevelFolders = index + 1, !.scaned = index + 1]

PostWrite(s) ==
  /\ wk[s].pc = "post_write"
  /\ LET w == wk[s]
         state == Stamp(PostState(w.snap, w.index), clock)
         gain == <<w.index, state.scanedFolder - w.base[1],
                   state.scanedMusicFile - w.base[2]>>
     IN  \E fails \in BOOLEAN :
           IF fails
           THEN /\ budget.fault > 0
                /\ budget' = [budget EXCEPT !.fault = @ - 1]
                /\ wk' = [wk EXCEPT ![s] = StoreFailure([w EXCEPT !.snap = Absent])]
                /\ UNCHANGED <<cp, rq, staleWrite>>
           ELSE /\ WriteBy(s, LoopHead([w EXCEPT !.fresh = state, !.snap = Absent,
                                                 !.pre = Absent, !.preAlias = FALSE,
                                                 !.index = w.index + 1,
                                                 !.attempt = 0,
                                                 !.gains = @ \cup {gain}]),
                           state, w.stale)
                /\ UNCHANGED budget
  /\ UNCHANGED <<rest, remote, backend, lock, cache>>

\* const doneState = (await getScanState(userId)) || freshState
DoneRead(s) ==
  /\ wk[s].pc = "done_read"
  /\ wk' = [wk EXCEPT ![s] = [@ EXCEPT !.pc = "done_write", !.stale = FALSE,
                                       !.snap = OrElse(cp, wk[s].fresh)]]
  /\ UNCHANGED <<rest, remote, backend, cp, lock, cache, rq, budget, staleWrite>>

\* An engine that leaves the checkpoint as it is when its loop ends.
StillScanning(doneState) == doneState

\* doneState.isScanning = false
DoneState(doneState) == [doneState EXCEPT !.isScanning = FALSE]

DoneWrite(s) ==
  /\ wk[s].pc = "done_write"
  /\ LET w == wk[s]
     IN  WriteBy(s, [w EXCEPT !.pc = "release", !.snap = Absent],
                 Stamp(DoneState(w.snap), clock), w.stale)
  /\ UNCHANGED <<rest, remote, backend, lock, cache, budget>>

\* A task whose end leaves the lock where it is.
KeepLock(s) ==
  /\ wk[s].pc = "release"
  /\ wk' = [wk EXCEPT ![s] = IdleW]
  /\ UNCHANGED <<rest, remote, backend, cp, lock, cache, rq, budget, staleWrite>>

\* .finally(() => releaseScanLock(userId)): the lock is deleted, whoever wrote it.
Release(s) ==
  /\ wk[s].pc = "release"
  /\ lock' = NoLock
  /\ wk' = [wk EXCEPT ![s] = IdleW]
  /\ UNCHANGED <<rest, remote, backend, cp, cache, rq, budget, staleWrite>>

\* ------------------------------------------------------------- environment
\* The server process dies: its detached tasks and the requests it was serving
\* are gone; what is persisted stays.
Crash ==
  /\ budget.fault > 0
  /\ \E s \in Slots : Active(s)
  /\ budget' = [budget EXCEPT !.fault = @ - 1]
  /\ wk' = [s \in Slots |-> IdleW]
  /\ rq' = [s \in Slots |-> IF InFlight(s) THEN IdleReq ELSE rq[s]]
  /\ UNCHANGED <<rest, remote, backend, cp, lock, cache, staleWrite>>

\* The Redis lock key is set with EX 60 * 30: it expires by itself.
LockExpire ==
  /\ backend = "redis"
  /\ lock # NoLock
  /\ lock' = NoLock
  /\ UNCHANGED <<rest, remote, backend, cp, cache, rq, wk, budget, staleWrite>>

Step(s) ==
  \/ ReqRead(s) \/ ReqHasLock(s) \/ ReqSet(s) \/ ReqAcquire(s)
  \/ PrimeList(s) \/ PrimeSet(s) \/ TopStart(s) \/ PreRead(s) \/ PreWrite(s)
  \/ Update(s) \/ UpdateSet(s) \/ BfsList(s) \/ BfsRead(s) \/ BfsWrite(s)
  \/ PostRead(s) \/ PostWrite(s) \/ DoneRead(s) \/ DoneWrite(s) \/ Release(s)

\* Concurrent requests (slots are taken in order) and their workers.
IssueAny(s) == (s = 1 \/ rq[1].pc # "idle" \/ Active(1)) /\ Issue(s)

Next == \E s \in Slots : IssueAny(s) \/ Step(s)

Spec == Init /\ [][Next]_vars

\* Requests sent one at a time, each after the previous one's worker has ended,
\* to a server that can crash: the runs of one worker.
Quiet == \A s \in Slots : ~InFlight(s) /\ ~Active(s)

IssueSolo == Quiet /\ Issue(1)

NextSolo ==
  \/ IssueSolo
  \/ \E s \in Slots : Step(s)
  \/ Crash
  \/ LockExpire

SpecSolo == InitSolo /\ [][NextSolo]_vars

\* A request or worker that can take a step takes one, and a Redis key set
\* with EX expires; no client is obliged to send a request.
SpecSoloFair ==
  SpecSolo /\ WF_vars(\E s \in Slots : Step(s)) /\ WF_vars(LockExpire)

\* ------------------------------------------- the listing client, by page
\* A page arrived: its items are appended and the next link, if any, followed.
NextPage(g) ==
  [g EXCEPT !.items = Append(@, g.page),
            !.page = IF g.page < g.pages THEN @ + 1 ELSE @,
            !.pc = IF g.page < g.pages THEN "fetch" ELSE "done"]

\* if (!response.ok) throw new Error(`Graph API error: ${response.status} ...`)
Fail(g, status) == [g EXCEPT !.pc = "failed", !.err = ErrorMessage(status)]

\* The response to the first request of a page.
AfterFetch(g, status) ==
  IF status = 401 THEN [g EXCEPT !.pc = "refresh"]
  ELSE IF status = 200 THEN NextPage(g)
  ELSE Fail(g, status)

\* A client that starts the listing over with the refreshed token.
RestartPagination(g, outcome) ==
  IF outcome = "token"
  THEN [g EXCEPT !.pc = "fetch", !.token = "refreshed", !.page = 1, !.items = <<>>]
  ELSE Fail(g, 401)

\* const refreshed = await getServerAccessToken(): a token, null, or a throw
\* the empty catch swallows; without a token the 401 response stands.
AfterRefresh(g, outcome) ==
  IF outcome = "token"
  THEN [g EXCEPT !.pc = "refetch", !.token = "refreshed"]
  ELSE Fail(g, 401)

\* The response to the second request of the same page URL.
AfterRefetch(g, status) ==
  IF status = 200 THEN NextPage(g) ELSE Fail(g, status)

Logged(g, kind, page, result) == [g EXCEPT !.log = Append(@, <<kind, page, result>>)]

\* fetchAllItemsWithPagination(accessToken, path) is called on a folder whose
\* listing has `pages` pages.
PgCall ==
  /\ pg.pc = "idle"
  /\ \E pages \in 1..MaxPages :
       pg' = [NoCall EXCEPT !.pc = "fetch", !.pages = pages, !.page = 1]
  /\ UNCHANGED <<io, call, disk, crawl, clock, sse, env, settings>>

PgFetch ==
  /\ pg.pc = "fetch"
  /\ \E status \in Statuses :
       pg' = Logged(AfterFetch(pg, status), "fetch", pg.page, status)
  /\ UNCHANGED <<io, call, disk, crawl, clock, sse, env, settings>>

PgRefresh ==
  /\ pg.pc = "refresh"
  /\ \E outcome \in {"token", "null", "throws"} :
       pg' = Logged(AfterRefresh(pg, outcome), "refresh", pg.page, outcome)
  /\ UNCHANGED <<io, call, disk, crawl, clock, sse, env, settings>>

PgRefetch ==
  /\ pg.pc = "refetch"
  /\ \E status \in Statuses :
       pg' = Logged(AfterRefetch(pg, status), "retry", pg.page, status)
  /\ UNCHANGED <<io, call, disk, crawl, clock, sse, env, settings>>

\* return allItems, or the Error thrown to the caller
PgReturn ==
  /\ pg.pc \in {"done", "failed"}
  /\ pg' = NoCall
  /\ UNCHANGED <<io, call, disk, crawl, clock, sse, env, settings>>

NextPages == PgCall \/ PgFetch \/ PgRefresh \/ PgRefetch \/ PgReturn

\* One listing call at a time, nothing else running.
InitPages == InitWith({FlatStore}, FALSE, 0, 0)

SpecPages == InitPages /\ [][NextPages]_vars

\* Requests sent one at a time to a server that runs without faults, on the
\* libraries of every shape.
InitTree ==
  /\ InitWith({TreeStore, DeepStore, FlatStore}, TRUE, MaxIssue, 0)
  /\ cp = PartialCheckpoint => remote = FlatStore

NextTree == IssueSolo \/ \E s \in Slots : Step(s)

SpecTree == InitTree /\ [][NextTree]_vars

\* Requests sent one at a time for the library of two top-level folders.
InitExample ==
  /\ InitWith({ExampleStore, FlatStore}, TRUE, MaxIssue, 0)
  /\ cp = PartialCheckpoint => remote = FlatStore

NextExample == IssueSolo \/ \E s \in Slots : Step(s)

SpecExample == InitExample /\ [][NextExample]_vars

\* ------------------------------------------------------------------ time
\* A millisecond passes: Date.now() returns a greater value.
Tick ==
  /\ clock < MaxClock
  /\ clock' = clock + 1
  /\ UNCHANGED <<io, call, disk, crawl, sse, pg, env, settings>>

\* Requests sent one at a time to a healthy deployment, as time passes.
InitClock ==
  /\ InitWith({DeepStore, FlatStore}, TRUE, MaxIssue, 0)
  /\ cp = PartialCheckpoint => remote = FlatStore

NextClock == IssueSolo \/ (\E s \in Slots : Step(s)) \/ Tick

SpecClock == InitClock /\ [][NextClock]_vars

\* -------------------------------------------------------- progress notifier
\* GET /api/music/scan/stream. The frames written to the stream: comments
\* (": stream-started", ": keep-alive") and data frames (toSSE({ scanState })).
StreamStarted == [kind |-> "stream-started", version |-> 0]
KeepAlive == [kind |-> "keep-alive", version |-> 0]
Data(version) == [kind |-> "data", version |-> version]

\* scanState?.lastUpdate ?? 0
Version(scanState) == IF scanState.present THEN scanState.lastUpdate ELSE 0

\* cleanup(), and the body of cancel(): both timers cleared, isClosed = true
Cleanup(b) ==
  [b EXCEPT !.pollInterval = FALSE, !.keepAliveInterval = FALSE, !.isClosed = TRUE]

\* safeEnqueue(payload): nothing once closed; an enqueue that throws runs cleanup.
SafeEnqueue(b, payload) ==
  IF b.isClosed THEN b
  ELSE IF b.usable THEN [b EXCEPT !.out = Append(@, payload)]
  ELSE Cleanup(b)

\* A notifier that pushes every checkpoint it reads.
EmitAlways(version, lastVersion) == version # 0

\* if (version && version !== lastVersion)
ShouldEmit(version, lastVersion) == version # 0 /\ version # lastVersion

\* send(), after its getScanState has returned
AfterGet(b, version) ==
  IF ShouldEmit(version, b.lastVersion)
  THEN SafeEnqueue([b EXCEPT !.lastVersion = version], Data(version))
  ELSE [b EXCEPT !.same = @ \/ version # 0]

KeepAlives(out) == Len(SelectSeq(out, LAMBDA f : f.kind = "keep-alive"))

Without(seq, i) == [j \in 1..(Len(seq) - 1) |-> IF j < i THEN seq[j] ELSE seq[j + 1]]

\* start(controller): the stream-started marker, and the initial send() up to
\* its await of getScanState.
Connect ==
  /\ sse.pc = "none"
  /\ sse' = [SafeEnqueue([NoSub EXCEPT !.usable = TRUE], StreamStarted)
               EXCEPT !.pc = "initial", !.reads = <<Version(cp)>>]
  /\ UNCHANGED <<io, call, disk, crawl, clock, pg, env, settings>>

\* The initial send() ends and start goes on: both timers are created.
InitialDone ==
  /\ sse.pc = "initial"
  /\ sse' = [AfterGet([sse EXCEPT !.reads = <<>>], sse.reads[1])
               EXCEPT !.pc = "running", !.pollInterval = TRUE,
                      !.keepAliveInterval = TRUE]
  /\ UNCHANGED <<io, call, disk, crawl, clock, pg, env, settings>>

\* The poll timer fires: send() up to its await; nothing once closed.
PollTick ==
  /\ sse.pollInterval
  /\ sse.ticks < MaxTick /\ Len(sse.reads) < MaxPending
  /\ sse' = IF sse.isClosed THEN sse
            ELSE [sse EXCEPT !.reads = Append(@, Version(cp)), !.ticks = @ + 1]
  /\ UNCHANGED <<io, call, disk, crawl, clock, pg, env, settings>>

\* A send() started by the poll timer ends.
SendDone ==
  /\ sse.pc = "running"
  /\ \E i \in 1..Len(sse.reads) :
       sse' = AfterGet([sse EXCEPT !.reads = Without(@, i)], sse.reads[i])
  /\ UNCHANGED <<io, call, disk, crawl, clock, pg, env, settings>>

\* The keep-alive timer fires (the frames past MaxAlive are not recorded).
KeepAliveTick ==
  /\ sse.keepAliveInterval
  /\ sse' = IF sse.usable /\ KeepAlives(sse.out) >= MaxAlive THEN sse
            ELSE SafeEnqueue(sse, KeepAlive)
  /\ UNCHANGED <<io, call, disk, crawl, clock, pg, env, settings>>

\* The subscriber goes away and the runtime calls cancel().
Cancel ==
  /\ sse.pc \in {"initial", "running"} /\ sse.usable
  /\ sse' = [(IF sse.isClosed THEN sse ELSE Cleanup(sse)) EXCEPT !.usable = FALSE]
  /\ UNCHANGED <<io, call, disk, crawl, clock, pg, env, settings>>

\* The subscriber goes away and the next enqueue throws.
Break ==
  /\ sse.pc \in {"initial", "running"} /\ sse.usable
  /\ sse' = [sse EXCEPT !.usable = FALSE]
  /\ UNCHANGED <<io, call, disk, crawl, clock, pg, env, settings>>

Notify ==
  Connect \/ InitialDone \/ PollTick \/ SendDone \/ KeepAliveTick \/ Cancel \/ Break

\* One subscription next to scans requested one at a time, as time passes.
InitNotify == InitWith({FlatStore}, TRUE, MaxIssue, 0)

NextNotify == IssueSolo \/ (\E s \in Slots : Step(s)) \/ Tick \/ Notify

SpecNotify == InitNotify /\ [][NextNotify]_vars

\* The timers fire and the awaited reads return.
SpecNotifyFair ==
  SpecNotify /\ WF_vars(InitialDone) /\ WF_vars(SendDone) /\ WF_vars(KeepAliveTick)

\* ------------------------------------------------------ clearing the state
\* DELETE /api/music/scan, clearScanState: the file-backed variant writes "{}"
\* to the checkpoint file, the Redis variant deletes the key. The request is
\* served while the worker waits for a listing of the remote store.
ClearState ==
  /\ env.del = "idle" /\ env.clears > 0
  /\ wk[1].pc \in {"prime_list", "bfs_list"}
  /\ cp' = IF backend = "file" THEN Blank ELSE Absent
  /\ staleWrite' = FALSE
  /\ wk' = [x \in Slots |-> StaledW(wk[x])]
  /\ rq' = [x \in Slots |-> StaledReq(rq[x])]
  /\ env' = [env EXCEPT !.del = "unlock", !.clears = @ - 1]
  /\ UNCHANGED <<io, call, disk, remote, backend, lock, cache, budget, clock, sse, pg, settings>>

\* clearScanState, "Also clear scan lock": the lock is deleted, whoever holds it.
ClearLock ==
  /\ env.del = "unlock"
  /\ lock' = NoLock
  /\ env' = [env EXCEPT !.del = "idle"]
  /\ UNCHANGED <<io, call, disk, remote, backend, cp, cache, rq, wk, budget, staleWrite, clock, sse, pg,
               settings>>

\* The user removes the top-level folders from the remote library, here while
\* the DELETE request is being served.
Emptied(store) == [store EXCEPT ![Root] = Listing(<<>>, store[Root].files)]

LibraryChange ==
  /\ env.changes > 0 /\ env.del = "unlock"
  /\ remote[Root].folders # <<>>
  /\ remote' = Emptied(remote)
  /\ env' = [env EXCEPT !.changes = @ - 1]
  /\ UNCHANGED <<io, call, disk, backend, cp, lock, cache, rq, wk, budget, staleWrite, clock, sse, pg,
               settings>>

\* Scan requests and clears of the state of a library that can change.
InitClear ==
  InitAll({FlatStore}, TRUE, MaxIssue, 0,
          [del |-> "idle", clears |-> MaxClear, changes |-> MaxChange, puts |-> 0])

\* A request is sent when nothing runs, or after the state has been cleared.
IssueCleared(s) ==
  /\ IF s = 1 THEN Quiet ELSE Active(1) /\ env.clears < MaxClear /\ env.del = "idle"
  /\ Issue(s)

NextClear ==
  \/ \E s \in Slots : IssueCleared(s) \/ Step(s)
  \/ ClearState
  \/ ClearLock
  \/ LibraryChange

SpecClear == InitClear /\ [][NextClear]_vars

\* ------------------------------------------------------------ user settings
\* POST and PATCH /api/user/settings. The musicRootPath a request body gives;
\* NoPath is a body without the field.
NoPath == "undefined"
GivenPaths == {"", "/Music", " /Music ", "/Music/..", NoPath}

\* musicRootPath.trim()
Trim(path) == IF path = " /Music " THEN "/Music" ELSE path

\* musicRootPath.includes("..")
HasDotDot(path) == path = "/Music/.."

\* The 400 responses: POST needs a string, no request may contain "..".
Invalid(method, given) ==
  \/ method = "POST" /\ given = NoPath
  \/ given # NoPath /\ HasDotDot(given)

\* isRootPathChanging: currentSettings?.musicRootPath !== musicRootPath.trim()
IsRootPathChanging(stored, given) == given # NoPath /\ stored # Trim(given)

\* What clearUserCache and clearScanState leave of the checkpoint.
ClearedState(b) == IF b = "file" THEN Blank ELSE Absent

PutSend ==
  /\ env.puts > 0
  /\ settings.put.pc \in {"idle", "done"}
  /\ \E method \in {"POST", "PATCH"}, given \in GivenPaths :
       settings' =
         [settings EXCEPT !.put =
            IF Invalid(method, given)
            THEN [NoPut EXCEPT !.pc = "done", !.method = method, !.given = given,
                               !.status = 400]
            ELSE [NoPut EXCEPT !.pc = IF given = NoPath THEN "write" ELSE "read",
                               !.method = method, !.given = given]]
  /\ env' = [env EXCEPT !.puts = @ - 1]
  /\ UNCHANGED <<io, call, disk, crawl, clock, sse, pg>>

\* const currentSettings = await getUserSettings(userId)
PutRead ==
  /\ settings.put.pc = "read"
  /\ settings' = [settings EXCEPT
                    !.put.changing = IsRootPathChanging(settings.musicRootPath,
                                                        settings.put.given),
                    !.put.pc = "write"]
  /\ UNCHANGED <<io, call, disk, crawl, clock, sse, pg, env>>

\* await setUserSettings / updateUserSettings; an unchanged path returns here.
PutWrite ==
  /\ settings.put.pc = "write"
  /\ settings' = [settings EXCEPT
                    !.musicRootPath = IF settings.put.given = NoPath THEN @
                                      ELSE Trim(settings.put.given),
                    !.put.pc = IF settings.put.changing THEN "cache" ELSE "done",
                    !.put.status = IF settings.put.changing THEN 0 ELSE 200]
  /\ UNCHANGED <<io, call, disk, crawl, clock, sse, pg, env>>

\* clearUserCache: the music cache
PutClearCache ==
  /\ settings.put.pc = "cache"
  /\ cache' = EmptyCache
  /\ settings' = [settings EXCEPT !.put.pc = "state"]
  /\ UNCHANGED <<io, call, disk, remote, backend, cp, lock, rq, wk, budget, staleWrite, clock, sse, pg,
                 env>>

\* clearUserCache: the scan state; then, by DELETE /api/music/scan, clearScanState
PutClearState ==
  /\ settings.put.pc \in {"state", "delete"}
  /\ \E authorized \in BOOLEAN :
       /\ settings.put.pc = "state" => authorized
       /\ IF authorized
          THEN /\ cp' = ClearedState(backend)
               /\ staleWrite' = FALSE
               /\ wk' = [x \in Slots |-> StaledW(wk[x])]
               /\ rq' = [x \in Slots |-> StaledReq(rq[x])]
               /\ settings' = [settings EXCEPT
                                 !.put.pc = IF @ = "state" THEN "lock" ELSE "delete_lock"]
          ELSE /\ settings' = [settings EXCEPT !.put.pc = "done", !.put.status = 200,
                                               !.put.cleared = TRUE]
               /\ UNCHANGED <<cp, staleWrite, wk, rq>>
  /\ UNCHANGED <<io, call, disk, remote, backend, lock, cache, budget, clock, sse, pg, env>>

\* clearUserCache: the scan lock; then the scan lock of clearScanState, after
\* which the settings request returns.
PutClearLock ==
  /\ settings.put.pc \in {"lock", "delete_lock"}
  /\ lock' = NoLock
  /\ settings' = IF settings.put.pc = "lock"
                 THEN [settings EXCEPT !.put.pc = "delete"]
                 ELSE [settings EXCEPT !.put.pc = "done", !.put.status = 200,
                                       !.put.cleared = TRUE]
  /\ UNCHANGED <<io, call, disk, remote, backend, cp, cache, rq, wk, budget, staleWrite, clock, sse, pg,
                 env>>

Put == PutSend \/ PutRead \/ PutWrite \/ PutClearCache \/ PutClearState \/ PutClearLock

\* Settings requests next to scans requested one at a time.
InitSettings ==
  InitAll({FlatStore}, TRUE, MaxIssue, 0,
          [del |-> "idle", clears |-> 0, changes |-> 0, puts |-> MaxPut])

NextSettings == IssueSolo \/ (\E s \in Slots : Step(s)) \/ Put

SpecSettings == InitSettings /\ [][NextSettings]_vars

\* ------------------------------------------------------- users side by side
\* The storage calls the handlers and the crawl make, each with the userId of
\* the request's access token.
Written(d, b, userId, kinds, value) ==
  [data |-> [k \in DOMAIN d.data |->
               IF \E kind \in kinds : k = StorageKey(b, userId, kind)
               THEN value ELSE d.data[k]],
   by |-> userId]

\* setScanState / storeMusicData / setUserSettings
UserWrite(u) ==
  /\ \E kind \in Kinds \ {"scan:lock"}, value \in Contents :
       disk' = Written(disk, backend, u, {kind}, value)
  /\ UNCHANGED <<io, call, crawl, clock, sse, pg, env, settings>>

\* acquireScanLock: the file is written whatever it held, the Redis key is
\* set only when it does not exist.
UserAcquire(u) ==
  /\ disk' = IF AcquireScanLock(backend,
                                IF ReadEntry(disk, backend, u, "scan:lock") = NoEntry
                                THEN NoLock ELSE 1)
             THEN Written(disk, backend, u, {"scan:lock"}, "v1")
             ELSE [disk EXCEPT !.by = u]
  /\ UNCHANGED <<io, call, crawl, clock, sse, pg, env, settings>>

\* releaseScanLock
UserRelease(u) ==
  /\ ReadEntry(disk, backend, u, "scan:lock") # NoEntry
  /\ disk' = Written(disk, backend, u, {"scan:lock"}, NoEntry)
  /\ UNCHANGED <<io, call, crawl, clock, sse, pg, env, settings>>

\* clearScanState (DELETE /api/music/scan)
UserClearState(u) ==
  /\ disk' = Written(Written(disk, backend, u, {"scan-state"}, ClearedEntry(backend)),
                     backend, u, {"scan:lock"}, NoEntry)
  /\ UNCHANGED <<io, call, crawl, clock, sse, pg, env, settings>>

\* clearUserCache (a settings update that changes musicRootPath)
UserClearCache(u) ==
  /\ disk' = Written(Written(disk, backend, u, {"scan-state", "music-cache"},
                             ClearedEntry(backend)),
                     backend, u, {"scan:lock"}, NoEntry)
  /\ UNCHANGED <<io, call, crawl, clock, sse, pg, env, settings>>

InitUsers == InitWith({FlatStore}, FALSE, 0, 0)

NextUsers ==
  \E u \in Users :
    UserWrite(u) \/ UserAcquire(u) \/ UserRelease(u) \/ UserClearState(u)
      \/ UserClearCache(u)

SpecUsers == InitUsers /\ [][NextUsers]_vars

\* ------------------------------------------------------- cache file writes
\* The music cache of one user: music-cache.json, or the Redis hash.
CacheText == ReadEntry(disk, backend, "A", "music-cache")

PutText(text) == Written(disk, backend, "A", {"music-cache"}, text)

\* What fs.writeFile leaves in the target between its open and its write.
Truncated == "{"

\* tryRename's catch: on EPERM or EBUSY, "try to remove then rename":
\* await fs.unlink(filePath)
RemoveTarget(d, b, w) == Written(d, b, "A", {"music-cache"}, NoEntry)

\* tryRename returned false: sleep, and the next attempt or the fallback.
AfterFailedRename(w) ==
  IF w.attempt + 1 < RenameAttempts
  THEN [w EXCEPT !.pc = "rename", !.attempt = @ + 1]
  ELSE [w EXCEPT !.pc = "fallback"]

\* storeMusicData up to the rename of writeJsonAtomic (the tmp file is
\* written), or up to the hSet of the Redis variant.
StoreBegin ==
  /\ io.w.pc \in {"idle", "done"} /\ io.w.left > 0
  /\ io' = [io EXCEPT !.w = [NoWrite EXCEPT
                               !.pc = IF backend = "file" THEN "rename" ELSE "hset",
                               !.json = IF io.w.left = MaxWrite THEN "v1" ELSE "v2",
                               !.prev = CacheText,
                               !.tmp = backend = "file",
                               !.left = io.w.left - 1]]
  /\ UNCHANGED <<disk, call, crawl, clock, sse, pg, env, settings>>

\* redis.hSet(key, path, JSON.stringify(entry))
StoreHSet ==
  /\ io.w.pc = "hset"
  /\ disk' = PutText(io.w.json)
  /\ io' = [io EXCEPT !.w.pc = "done"]
  /\ UNCHANGED <<call, crawl, clock, sse, pg, env, settings>>

\* tryRename: fs.rename(tmp, filePath) succeeds, throws EPERM or EBUSY, or
\* throws something else.
TryRename ==
  /\ io.w.pc = "rename"
  /\ \E result \in {"renamed", "EPERM", "other"} :
       CASE result = "renamed" ->
              /\ disk' = PutText(io.w.json)
              /\ io' = [io EXCEPT !.w.pc = "done", !.w.tmp = FALSE]
         [] result = "EPERM" ->
              /\ disk' = RemoveTarget(disk, backend, io.w)
              /\ io' = [io EXCEPT !.w.pc = "rename_again"]
         [] result = "other" ->
              /\ disk' = disk
              /\ io' = [io EXCEPT !.w = AfterFailedRename(@)]
  /\ UNCHANGED <<call, crawl, clock, sse, pg, env, settings>>

\* The second fs.rename(tmp, filePath) of tryRename, after the unlink.
RenameAgain ==
  /\ io.w.pc = "rename_again"
  /\ \E renamed \in BOOLEAN :
       IF renamed
       THEN /\ disk' = PutText(io.w.json)
            /\ io' = [io EXCEPT !.w.pc = "done", !.w.tmp = FALSE]
       ELSE /\ disk' = disk
            /\ io' = [io EXCEPT !.w = AfterFailedRename(@)]
  /\ UNCHANGED <<call, crawl, clock, sse, pg, env, settings>>

\* "Fallback: copy content directly to target": fs.writeFile opens the target
\* for writing, which empties it,
FallbackOpen ==
  /\ io.w.pc = "fallback"
  /\ disk' = PutText(Truncated)
  /\ io' = [io EXCEPT !.w.pc = "fallback_write"]
  /\ UNCHANGED <<call, crawl, clock, sse, pg, env, settings>>

\* then writes the text; finally the tmp file is unlinked.
FallbackWrite ==
  /\ io.w.pc = "fallback_write"
  /\ disk' = PutText(io.w.json)
  /\ io' = [io EXCEPT !.w.pc = "done", !.w.tmp = FALSE]
  /\ UNCHANGED <<call, crawl, clock, sse, pg, env, settings>>

\* getCachedData: readFile and JSON.parse, null when either throws; hGet.
Parsed(text) == IF text \in Contents THEN text ELSE "null"

GetCachedData ==
  /\ io.reads > 0
  /\ io' = [io EXCEPT !.reads = @ - 1,
                      !.seen = @ \cup {[during |-> io.w.pc, prev |-> io.w.prev,
                                         new |-> io.w.json,
                                         got |-> Parsed(CacheText)]}]
  /\ UNCHANGED <<disk, call, crawl, clock, sse, pg, env, settings>>

InitCacheFile == InitWith({FlatStore}, FALSE, 0, 0)

NextCacheFile ==
  \/ StoreBegin \/ StoreHSet \/ TryRename \/ RenameAgain \/ FallbackOpen
  \/ FallbackWrite \/ GetCachedData

SpecCacheFile == InitCacheFile /\ [][NextCacheFile]_vars

\* ------------------------------------------------------- read-modify-write
\* The fields a caller can give: Partial<ScanState>, Partial<UserSettings>.
FieldsOf(key) ==
  IF key = "scan-state" THEN {"currentPath", "error", "isScanning"}
  ELSE {"musicRootPath", "driveType", "itemId"}

\* The call reads inside the task it queues with withFileLock: only the
\* file-backed updateScanState does.
ReadsInsideLock(b, key) == b = "file" /\ key = "scan-state"

\* Two callers update different fields of one key, the second while the first
\* is not yet done or after it.
RmwCall(i) ==
  /\ io.rmw[i].pc = "idle"
  /\ i = 2 => io.rmw[1].pc # "idle"
  /\ \E key \in {"scan-state", "settings"} : \E field \in FieldsOf(key) :
       /\ i = 2 => (key = io.rmw[1].key /\ field # io.rmw[1].field)
       /\ io' = [io EXCEPT !.rmw[i] = [NoRmw EXCEPT !.pc = "read", !.key = key,
                                                    !.field = field]]
  /\ UNCHANGED <<disk, call, crawl, clock, sse, pg, env, settings>>

\* { ...currentState, ...updates }
Merged(current, field) == current \cup {field}

\* The task of the file-backed updateScanState: getScanState, merge and
\* writeJsonAtomic, run by withFileLock with no other task of the file.
RmwTask(i) ==
  /\ io.rmw[i].pc = "read" /\ ReadsInsideLock(backend, io.rmw[i].key)
  /\ io' = [io EXCEPT !.rmw[i].pc = "done",
                      !.doc[io.rmw[i].key] = Merged(@, io.rmw[i].field)]
  /\ UNCHANGED <<disk, call, crawl, clock, sse, pg, env, settings>>

\* const current = await getScanState(userId) / await getUserSettings(userId)
RmwRead(i) ==
  /\ io.rmw[i].pc = "read" /\ ~ReadsInsideLock(backend, io.rmw[i].key)
  /\ io' = [io EXCEPT !.rmw[i].pc = "write", !.rmw[i].snap = io.doc[io.rmw[i].key]]
  /\ UNCHANGED <<disk, call, crawl, clock, sse, pg, env, settings>>

\* await setScanState(userId, merged) / redis.set / withFileLock(write)
RmwWrite(i) ==
  /\ io.rmw[i].pc = "write"
  /\ io' = [io EXCEPT !.rmw[i].pc = "done",
                      !.doc[io.rmw[i].key] = Merged(io.rmw[i].snap, io.rmw[i].field)]
  /\ UNCHANGED <<disk, call, crawl, clock, sse, pg, env, settings>>

InitRmw == InitWith({FlatStore}, FALSE, 0, 0)

NextRmw == \E i \in Callers : RmwCall(i) \/ RmwTask(i) \/ RmwRead(i) \/ RmwWrite(i)

SpecRmw == InitRmw /\ [][NextRmw]_vars

\* ------------------------------------------------------------- file queues
\* fileQueues.get(filePath) ?? Promise.resolve()
Get(map, filePath) == IF map[filePath] = NoPromise THEN Resolved ELSE map[filePath]

\* A promise is settled: Promise.resolve() is, the promise of a chained task
\* is once the task has ended, resolved or rejected.
Settled(promise, tasks) ==
  \/ promise.kind = "resolved"
  \/ promise.kind = "chain" /\ tasks[promise.of].state = "ended"

\* withFileLock up to its await: prev is read, next is created and the promise
\* of prev.catch(...).then(...) is stored as the tail of the path.
WithFileLock ==
  /\ Len(io.fq.tasks) < MaxTask
  /\ \E filePath \in FilePaths, fails \in BOOLEAN :
       LET k == Len(io.fq.tasks) + 1
           call_ == [path |-> filePath, fails |-> fails,
                     prev |-> Get(io.fq.map, filePath), next |-> NextOf(k),
                     state |-> "queued", returned |-> FALSE]
       IN  io' = [io EXCEPT !.fq.tasks = Append(@, call_),
                            !.fq.map[filePath] = Chained(k)]
  /\ UNCHANGED <<disk, call, crawl, clock, sse, pg, env, settings>>

\* prev has settled, fulfilled or rejected: .catch(() => undefined).then(...)
\* runs the task.
TaskStarts(k) ==
  /\ k \in DOMAIN io.fq.tasks
  /\ io.fq.tasks[k].state = "queued"
  /\ Settled(io.fq.tasks[k].prev, io.fq.tasks)
  /\ io' = [io EXCEPT !.fq.tasks[k].state = "running"]
  /\ UNCHANGED <<disk, call, crawl, clock, sse, pg, env, settings>>

\* try { await task() } finally { done() }: the task returns or throws, next
\* is resolved and the chained promise settles.
TaskEnds(k) ==
  /\ k \in DOMAIN io.fq.tasks
  /\ io.fq.tasks[k].state = "running"
  /\ io' = [io EXCEPT !.fq.tasks[k].state = "ended"]
  /\ UNCHANGED <<disk, call, crawl, clock, sse, pg, env, settings>>

\* if (tail === next) fileQueues.delete(filePath)
AfterAwait(map, filePath, next) ==
  IF map[filePath] = next THEN [map EXCEPT ![filePath] = NoPromise] ELSE map

\* await next has returned: the cleanup of the tail, and the return to the caller.
LockReturns(k) ==
  /\ k \in DOMAIN io.fq.tasks
  /\ io.fq.tasks[k].state = "ended" /\ ~io.fq.tasks[k].returned
  /\ io' = [io EXCEPT !.fq.tasks[k].returned = TRUE,
                      !.fq.map = AfterAwait(@, io.fq.tasks[k].path, io.fq.tasks[k].next)]
  /\ UNCHANGED <<disk, call, crawl, clock, sse, pg, env, settings>>

InitQueues == InitWith({FlatStore}, FALSE, 0, 0)

NextQueues ==
  \/ WithFileLock
  \/ \E k \in 1..MaxTask : TaskStarts(k) \/ TaskEnds(k) \/ LockReturns(k)

SpecQueues == InitQueues /\ [][NextQueues]_vars

\* ------------------------------------------------------------ audio filter
\* The file names of one listing: the four of the example, or any one name of
\* up to MaxName characters of a small alphabet.
ExampleNames ==
  << <<"a", ".", "M", "P", "3">>, <<"b", ".", "t", "x", "t">>,
     <<"c", ".", "F", "l", "a", "c">>, <<"d", ".", "e", "x", "e">> >>

NameAlphabet == {"a", ".", "m", "p", "3", "M"}

ShortNames == UNION {[1..n -> NameAlphabet] : n \in 1..MaxName}

\* const audioFiles = files.filter(...)
FilterListing ==
  /\ ~call.done
  /\ \E names \in {ExampleNames} \cup {<<n>> : n \in ShortNames} :
       call' = [done |-> TRUE, names |-> names, kept |-> SelectSeq(names, IsMedia)]
  /\ UNCHANGED <<io, disk, crawl, clock, sse, pg, env, settings>>

InitFilter == InitWith({FlatStore}, FALSE, 0, 0)

SpecFilter == InitFilter /\ [][FilterListing]_vars

\* ------------------------------------------------- cached-tracks listing
\* GET /api/music?limit=..&cursor=..: the tracks of every cached path, one per
\* id, sorted, and one page of them. A query parameter is absent, a number, or
\* text that Number() turns into NaN.
NoParam == [given |-> FALSE, number |-> FALSE, n |-> 0]
Num(n) == [given |-> TRUE, number |-> TRUE, n |-> n]
NotANumber == [given |-> TRUE, number |-> FALSE, n |-> 0]

DefaultLimit == 300
MinLimit == 50
MaxLimit == 1000

Smaller(a, b) == IF a < b THEN a ELSE b
Larger(a, b) == IF a > b THEN a ELSE b

\* Number(param) || otherwise: null gives 0, text gives NaN, both are falsy
NumberOr(param, otherwise) ==
  IF param.given /\ param.number /\ param.n # 0 THEN param.n ELSE otherwise

\* const limit = Math.min(Math.max(Number(limitParam) || 300, 50), 1000)
limit(limitParam) ==
  Smaller(Larger(NumberOr(limitParam, DefaultLimit), MinLimit), MaxLimit)

\* const offset = Math.max(Number(cursorParam) || 0, 0)
offset(cursorParam) == Larger(NumberOr(cursorParam, 0), 0)

\* A cached file: its id, and the ranks of its title and of its artist tag in
\* the collation order of their lower-case forms (artist 0: the file has none).
CachedFile(id, title, artist) == [id |-> id, title |-> title, artist |-> artist]

\* idToTrack.set(file.id, {...}): artist is file.artist ?? p.split("/").pop(),
\* folder is the cached path.
Track(file, entry) ==
  [id |-> file.id, title |-> file.title, folder |-> entry.path,
   artist |-> IF file.artist # 0 THEN file.artist ELSE entry.folderName]

\* The files of the cached paths in the order the loops visit them.
RECURSIVE Visited(_)
Visited(entries) ==
  IF entries = <<>> THEN <<>>
  ELSE LET entry == Head(entries)
       IN  [k \in 1..Len(entry.files) |-> Track(entry.files[k], entry)]
             \o Visited(Tail(entries))

\* A listing that takes no id as seen before.
NeverHas(visited, i) == FALSE

\* idToTrack.has(file.id), when the loops are at the i-th file
has(visited, i) == \E j \in 1..(i - 1) : visited[j].id = visited[i].id

\* if (!idToTrack.has(file.id)) idToTrack.set(file.id, ...); the values of the
\* Map come in insertion order.
idToTrack(entries) ==
  LET visited == Visited(entries)
      kept == SelectSeq([i \in 1..Len(visited) |-> i], LAMBDA i : ~has(visited, i))
  IN  <<>> \o [n \in 1..Len(kept) |-> visited[kept[n]]]

\* The comparator of allTracks.sort: artist, then title.
Before(a, b) == a.artist < b.artist \/ (a.artist = b.artist /\ a.title < b.title)

\* Array.prototype.sort is stable: a track comes after the tracks the
\* comparator puts before it and after the earlier ones it ties with.
sort(tracks) ==
  LET place == <<>> \o [i \in 1..Len(tracks) |->
                  1 + Cardinality({j \in 1..Len(tracks) :
                                     \/ Before(tracks[j], tracks[i])
                                     \/ (~Before(tracks[i], tracks[j]) /\ j < i)})]
  IN  <<>> \o [n \in 1..Len(tracks) |-> tracks[CHOOSE i \in 1..Len(tracks) : place[i] = n]]

allTracks(entries) == sort(idToTrack(entries))

\* allTracks.slice(offset, offset + limit)
slice(tracks, from, to) == SubSeq(tracks, from + 1, Smaller(to, Len(tracks)))

Null == -1

\* offset + slice.length < allTracks.length ? offset + slice.length : null
nextCursor(from, length, total) == IF from + length < total THEN from + length ELSE Null

\* The response of one GET.
CachedTracks(entries, limitParam, cursorParam) ==
  LET all == allTracks(entries)
      page == slice(all, offset(cursorParam), offset(cursorParam) + limit(limitParam))
  IN  [tracks |-> page, total |-> Len(all), limit |-> limit(limitParam),
       offset |-> offset(cursorParam),
       nextCursor |-> nextCursor(offset(cursorParam), Len(page), Len(all))]

\* Cached paths and their files: ids a..b, the title rank spread over the ids.
FilesFrom(a, b, artist) ==
  [i \in 1..(b - a + 1) |-> CachedFile(a + i - 1, ((a + i - 1) * 7) % 11, artist)]

Entry(path, folderName, files) == [path |-> path, folderName |-> folderName, files |-> files]

\* 130 tracks, 26 of them cached under two paths.
LargeCache ==
  << Entry(<<"Rock">>, 2, FilesFrom(1, 60, 0)),
     Entry(<<"Jazz">>, 1, FilesFrom(41, 100, 0)),
     Entry(<<"Rock", "Live">>, 3, FilesFrom(95, 130, 1)) >>

\* 100 tracks: two full pages of the smallest limit.
EvenCache == << Entry(<<"Jazz">>, 1, FilesFrom(1, 100, 0)) >>

SmallCache ==
  << Entry(<<"Rock">>, 2, FilesFrom(1, 3, 0)), Entry(<<"Jazz">>, 1, FilesFrom(2, 4, 0)) >>

Caches == {LargeCache, EvenCache, SmallCache, <<>>}

LimitParams ==
  {NoParam, NotANumber} \cup
  {Num(n) : n \in {-5, 0, 1, 49, 50, 51, 60, 65, 100, 129, 130, 131, 1000, 5000}}

\* The client's first request, without a cursor or with cursor=0.
FirstPage ==
  /\ ~call.done /\ call = NoFilter
  /\ \E entries \in Caches, limitParam \in LimitParams, cursorParam \in {NoParam, Num(0)} :
       LET page == CachedTracks(entries, limitParam, cursorParam)
       IN  call' = [done |-> page.nextCursor = Null, entries |-> entries,
                    limitParam |-> limitParam, pages |-> <<page>>]
  /\ UNCHANGED <<io, disk, crawl, clock, sse, pg, env, settings>>

\* The client follows nextCursor.
NextPageOfTracks ==
  /\ ~call.done /\ call # NoFilter
  /\ LET last == call.pages[Len(call.pages)]
         page == CachedTracks(call.entries, call.limitParam, Num(last.nextCursor))
     IN  call' = [call EXCEPT !.done = page.nextCursor = Null,
                              !.pages = Append(@, page)]
  /\ UNCHANGED <<io, disk, crawl, clock, sse, pg, env, settings>>

InitTracks == InitWith({FlatStore}, FALSE, 0, 0)

NextTracks == FirstPage \/ NextPageOfTracks

SpecTracks == InitTracks /\ [][NextTracks]_vars

\* The event loop runs every continuation that is ready: a request or a
\* worker whose awaited call has returned takes its next step.
SpecTreeFair == SpecTree /\ WF_vars(\E s \in Slots : Step(s))

\* SpecSolo reaches what Init takes as left by an earlier run.
PartialLeft ==
  /\ remote = FlatStore /\ cp = PartialCheckpoint /\ cache = PartialCache
  /\ lock = NoLock /\ Quiet

\* ------------------------------------------------------------------ claims
Range(seq) == {seq[i] : i \in 1..Len(seq)}

\* The folders reachable under a path of a store, the path included.
RECURSIVE Subtree(_, _)
Subtree(store, p) ==
  {p} \cup UNION {Subtree(store, JoinPath(p, name)) : name \in Range(store[p].folders)}

\* The audio files of the folders of a set of paths.
RECURSIVE AudioCount(_, _)
AudioCount(store, S) ==
  IF S = {} THEN 0
  ELSE LET p == CHOOSE q \in S : TRUE
       IN  Len(SelectSeq(store[p].files, IsAudio)) + AudioCount(store, S \ {p})

ActiveWorkers == {s \in Slots : Active(s)}

\* C1: two concurrent startBackground requests leave exactly one crawl worker
\* running, and the request that started none is answered 'already running'
\* or 'locked'.
C1_LockMutualExclusion ==
  /\ Cardinality({s \in ActiveWorkers : wk[s].from \in {"fresh", "resume"}}) <= 1
  /\ \A s \in Slots :
       rq[s].pc = "done" /\ rq[s].kind = "start" /\ ~rq[s].spawned
         => rq[s].resp \in {MsgAlready, MsgLocked}

\* C2: every write of the checkpoint stores a value computed from the
\* checkpoint persisted at the moment of the write, never from a snapshot read
\* before another actor's write.
C2_ReadMergeWrite == ~staleWrite

\* The workers scanTopLevelFolders was started for directly, to resume.
Resumed == {s \in Slots : Active(s) /\ wk[s].mode = "resume"}

\* C3: a worker resumed from a checkpoint with scannedTopLevelFolders = k and
\* a work list of length n traverses only the top-level folders k..n-1 (all of
\* them when its loop ends), and while it runs no persisted checkpoint has
\* scannedTopLevelFolders < k or a file or folder counter below its value at
\* the resume.
C3_ResumeFromCursor ==
  \A s \in Resumed :
    LET w == wk[s]
    IN  /\ \A i \in w.tried : w.k <= i /\ i < Len(w.paths)
        /\ w.pc \in {"done_read", "done_write"} => w.tried = w.k..(Len(w.paths) - 1)
        /\ cp.present
        /\ cp.scannedTopLevelFolders >= w.k
        /\ cp.scanedMusicFile >= w.preFiles
        /\ cp.scanedFolder >= w.preFolders

\* A worker resumed at index 1 of 2 has traversed folder 1 only, with the
\* counters of the first folder kept.
C3_Witness ==
  \E s \in Resumed :
    /\ wk[s].pc = "done_write" /\ wk[s].k = 1 /\ wk[s].tried = {1}
    /\ wk[s].preFolders > 0 /\ cp.scanedFolder > wk[s].preFolders

\* C4: a startBackground that reads a checkpoint with isScanning = true is
\* answered 'Scan already in progress' in that step, which starts no worker,
\* writes no lock and leaves the checkpoint as it is, whatever forceRestart is.
C4_AlreadyRunningNoop ==
  [][\A s \in Slots :
       /\ rq[s].pc = "read" /\ rq[s].kind = "start"
       /\ cp.present /\ cp.isScanning
       /\ rq'[s].pc \notin {"read", "idle"}
       => /\ rq'[s].pc = "done" /\ rq'[s].resp = MsgAlready
          /\ ~rq'[s].spawned
          /\ cp' = cp /\ lock' = lock /\ wk' = wk]_vars

C4_Witness ==
  \E s \in Slots :
    /\ rq[s].pc = "done" /\ rq[s].kind = "start" /\ rq[s].force
    /\ rq[s].resp = MsgAlready /\ cp.isScanning /\ ~Active(s)

\* C5: a startBackground that fails to acquire the scan lock (the lock is
\* present, or acquireScanLock returns false) starts no worker and returns
\* the status 'locked'.
C5_LockedOnContention ==
  \A s \in Slots :
    rq[s].pc = "done" /\ rq[s].kind = "start" /\ rq[s].lockFailed
      => ~rq[s].spawned /\ StatusOf(rq[s].resp) = "locked"

\* The work list Priming computes from the listing of the root path.
PrimedPaths == [i \in 1..Len(remote[Root].folders) |-> <<remote[Root].folders[i]>>]

\* C6: the worker a startBackground starts resumes (the checkpoint, its work
\* list and its counters kept, no Priming) exactly when the persisted
\* checkpoint has scannedTopLevelFolders < totalTopLevelFolders and
\* forceRestart is false; otherwise it runs Priming, and the checkpoint Priming
\* creates has scannedTopLevelFolders, the counters and scannedPaths reset and
\* the work list recomputed.
C6_ResumeOrNewEpoch ==
  [][\A s \in Slots :
       /\ (rq[s].pc = "acquire" /\ rq[s].kind = "start" /\ ~Active(s) /\ wk'[s].pc # "idle")
          => IF cp.present /\ cp.scannedTopLevelFolders < cp.totalTopLevelFolders
                /\ ~rq[s].force
             THEN /\ wk'[s].mode = "resume" /\ wk'[s].pc = "top_start"
                  /\ ~wk'[s].primed
                  /\ cp' = cp
                  /\ wk'[s].param.topLevelFoldersPaths = cp.topLevelFoldersPaths
                  /\ wk'[s].param.scannedTopLevelFolders = cp.scannedTopLevelFolders
                  /\ wk'[s].param.scanedMusicFile = cp.scanedMusicFile
                  /\ wk'[s].param.scanedFolder = cp.scanedFolder
             ELSE wk'[s].mode = "fresh" /\ wk'[s].pc = "prime_list"
       /\ (wk[s].mode = "fresh" /\ wk'[s].pc = "top_start" /\ wk[s].pc # "top_start")
          => /\ wk[s].pc = "prime_set"
             /\ cache[Root].present
             /\ cp'.present /\ cp'.isScanning
             /\ cp'.scannedTopLevelFolders = 0
             /\ cp'.scanedMusicFile = 0 /\ cp'.scanedFolder = 0
             /\ cp'.scannedPaths = <<>>
             /\ cp'.topLevelFoldersPaths = PrimedPaths
             /\ cp'.totalTopLevelFolders = Len(PrimedPaths)
       /\ (wk'[s].mode = "resume" /\ wk'[s].from = "resume")
          => wk'[s].pc \notin {"prime_list", "prime_set"} /\ ~wk'[s].primed]_vars

\* Both cases on one prior checkpoint with partial progress: a worker that
\* resumed it, or a forced restart that has reset it.
C6_Witness ==
  \E s \in Slots :
    /\ rq[s].kind = "start" /\ rq[s].spawned
    /\ rq[s].existing.present
    /\ rq[s].existing.scannedTopLevelFolders = 1
    /\ rq[s].existing.totalTopLevelFolders = 2
    /\ \/ ~rq[s].force /\ wk[s].from = "resume" /\ wk[s].pc = "release"
       \/ rq[s].force /\ wk[s].primed /\ wk[s].pc = "top_start"

\* C7: a root listing that returns NotFound during Priming persists an empty
\* CacheRecord for the root path and a checkpoint with totalTopLevelFolders = 0
\* and no error.
C7_NotFoundTolerated ==
  \A s \in Slots :
    wk[s].pc = "release" /\ wk[s].rootStatus = 404
      => /\ cache[Root] = CacheRecord(Listing(<<>>, <<>>), Root)
         /\ cp.present /\ cp.totalTopLevelFolders = 0 /\ cp.error = NoError

\* C8: a listing failure in the traversal of a top-level folder does not end
\* the run: a worker whose storage did not fail ends its loop after every
\* folder of the work list from its start index, and each folder traversed
\* without a failure adds the folders and audio files of its subtree to the
\* counters and leaves the CacheRecord of every folder of its subtree, whatever
\* failed before it.
C8_FailureIsolation ==
  \A s \in Slots :
    LET w == wk[s]
    IN  Active(s) /\ ~w.storeFailed =>
          /\ w.pc \in {"done_read", "done_write"} \/ (w.pc = "release" /\ w.primed)
               => w.tried = w.k..(Len(w.paths) - 1)
          /\ \A g \in w.gains :
               g[1] \notin (w.failed \cup w.retried) =>
                 LET sub == Subtree(remote, w.paths[g[1] + 1])
                 IN  /\ g[2] = Cardinality(sub)
                     /\ g[3] = AudioCount(remote, sub)
                     /\ \A p \in sub : cache[p] = CacheRecord(remote[p], p)

\* The first top-level folder failed and the second one was traversed in full.
C8_Witness ==
  \E s \in Slots :
    /\ wk[s].pc = "release" /\ ~wk[s].storeFailed
    /\ wk[s].failed = {0} /\ wk[s].tried = {0, 1}
    /\ \E g \in wk[s].gains : g[1] = 1 /\ g[2] = 2 /\ g[3] = 2

\* C9: when the traversal of a top-level subtree is abandoned on a transport
\* error, the persisted checkpoint's error is that failure's message before
\* the worker moves to the next top-level folder.
C9_ErrorRecorded ==
  \A s \in Slots :
    wk[s].pc \in {"post_read", "post_write"} /\ wk[s].index \in wk[s].failed
      => cp.present /\ cp.error = wk[s].failMsg

\* C10: every top-level folder at an index below scannedTopLevelFolders has a
\* CacheRecord for every folder reachable under it.
C10_DrainedBelowCursor ==
  cp.present =>
    \A i \in 1..cp.scannedTopLevelFolders :
      i <= Len(cp.topLevelFoldersPaths) =>
        \A p \in Subtree(remote, cp.topLevelFoldersPaths[i]) : cache[p].present

\* The step of worker s that starts a traversal of its current top-level folder.
StartsTraversal(s) ==
  /\ wk'[s].pc = "upd" /\ wk'[s].upd = "currentPath"
  /\ wk'[s].index < Len(wk'[s].paths)
  /\ wk'[s].cur = wk'[s].paths[wk'[s].index + 1]
  /\ wk'[s].visited = {wk'[s].cur} /\ wk'[s].queue = <<>>

\* C11: within one run a top-level subtree is traversed at most twice: the
\* second traversal starts only after the first failed with a 401 message and
\* the token refresh returned a token, it starts again from the top-level path,
\* and a failure of the second traversal abandons the subtree.
C11_RetryOnce ==
  [][\A s \in Slots :
       /\ wk'[s].attempt \in {0, 1, 2}
       /\ (Active(s) /\ wk'[s].pc # "idle") => wk'[s].index >= wk[s].index
       /\ (wk'[s].attempt = 2 /\ wk[s].attempt # 2)
            => /\ wk[s].attempt = 1 /\ wk[s].pc = "bfs_list"
               /\ wk'[s].retryMsg = ErrorMessage(401) /\ wk'[s].retryToken
               /\ wk'[s].index = wk[s].index
               /\ StartsTraversal(s)
       /\ (wk[s].attempt = 2 /\ wk'[s].pc # "idle")
            => /\ wk'[s].attempt = 2 \/ (wk'[s].attempt = 0 /\ wk'[s].index = wk[s].index + 1)
               /\ wk[s].pc = "bfs_list" /\ wk'[s].pc \notin {"bfs_list", "bfs_read"}
                    => /\ wk'[s].pc = "post_read" /\ ~wk'[s].ok
                       /\ wk[s].index \in wk'[s].failed]_vars

\* The first top-level folder was retried after a 401 and the retry failed too.
C11_Witness ==
  \E s \in Slots :
    /\ wk[s].pc = "post_read" /\ wk[s].attempt = 2 /\ ~wk[s].ok
    /\ wk[s].index \in wk[s].retried /\ wk[s].index \in wk[s].failed
    /\ wk[s].retryMsg = ErrorMessage(401)

\* The events of a kind that a call's log holds for a page, and their results.
Events(log, kind, page) ==
  {i \in 1..Len(log) : log[i][1] = kind /\ log[i][2] = page}

Results(log, kind, page) == {log[i][3] : i \in Events(log, kind, page)}

Dequeues(s) ==
  /\ wk[s].pc # "upd"
  /\ wk'[s].pc = "upd" /\ wk'[s].upd = "currentPath"

\* C13: once the persisted checkpoint has isScanning = false while a worker is
\* crawling, the worker's next loop check sees it: the worker takes no further
\* folder from its queue and starts no further top-level subtree.
C13_StopObserved ==
  [][\A s \in Slots :
       (Active(s) /\ cp.present /\ ~cp.isScanning) => ~Dequeues(s)]_vars

\* The child folders of the folders of a sequence, in order: the next level.
RECURSIVE Children(_, _)
Children(store, level) ==
  IF level = <<>> THEN <<>>
  ELSE [i \in 1..Len(store[Head(level)].folders) |->
          JoinPath(Head(level), store[Head(level)].folders[i])]
       \o Children(store, Tail(level))

\* The folders of a subtree level by level: the breadth-first order.
RECURSIVE LevelOrder(_, _)
LevelOrder(store, level) ==
  IF level = <<>> THEN <<>> ELSE level \o LevelOrder(store, Children(store, level))

IsPrefix(a, b) == Len(a) <= Len(b) /\ SubSeq(b, 1, Len(a)) = a

\* C14: a traversal that no failure interrupts lists the folders of its subtree
\* in breadth-first order from the subtree's root, each exactly once, and
\* stores one CacheRecord for each folder it listed.
C14_BreadthFirstOnce ==
  \A s \in Slots :
    LET w == wk[s]
        top == w.paths[w.index + 1]
    IN  (Active(s) /\ w.attempt = 1 /\ w.index \notin w.failed) =>
          /\ IsPrefix(w.listed, LevelOrder(remote, <<top>>))
          /\ w.written = w.listed
          /\ w.pc \in {"post_read", "post_write"} =>
               /\ w.listed = LevelOrder(remote, <<top>>)
               /\ Range(w.listed) = Subtree(remote, top)
               /\ Len(w.listed) = Cardinality(Subtree(remote, top))

\* The seven folders under a top-level folder of the binary tree were listed.
C14_Witness ==
  \E s \in Slots :
    /\ wk[s].pc = "post_read" /\ wk[s].ok /\ remote = TreeStore
    /\ wk[s].listed = << <<"b">>, <<"b", "a">>, <<"b", "b">>, <<"b", "a", "a">>,
                         <<"b", "a", "b">>, <<"b", "b", "a">>, <<"b", "b", "b">> >>

\* The Completed state on a library: the cursor at the end of the work list,
\* isScanning false, the counters those of the folders crawled.
Completed ==
  /\ cp.present /\ ~cp.isScanning
  /\ cp.scannedTopLevelFolders = Len(cp.topLevelFoldersPaths)
  /\ cp.topLevelFoldersPaths = PrimedPaths
  /\ cp.scanedFolder = Cardinality(Subtree(remote, Root) \ {Root})
  /\ cp.scanedMusicFile = AudioCount(remote, Subtree(remote, Root) \ {Root})

\* C15: on a finite library whose listings all return, a started worker
\* eventually ends with the checkpoint Completed: isScanning false, the cursor
\* at the end of the work list and the counters as the last folder left them.
C15_ReachesCompleted ==
  \A s \in Slots : Active(s) ~> (~Active(s) /\ lock = NoLock /\ Completed)

\* A crawl of the binary tree has ended Completed: 14 folders, 14 audio files.
C15_Witness ==
  /\ remote = TreeStore /\ Quiet /\ rq[1].spawned /\ Completed
  /\ cp.scanedFolder = 14 /\ cp.scanedMusicFile = 14

\* The persisted checkpoint has a work list.
HasWorkList == cp.present /\ ~cp.blank

\* C16: a persisted checkpoint that has a work list has its cursor within the
\* list and its total equal to the length of the list, whatever start, resume,
\* clear and crawl steps led to it.
C16_CursorWithinList ==
  HasWorkList =>
    /\ cp.scannedTopLevelFolders <= Len(cp.topLevelFoldersPaths)
    /\ cp.totalTopLevelFolders = Len(cp.topLevelFoldersPaths)

\* The step is the setScanState of a Priming: a new epoch starts.
Priming == \E s \in Slots : wk[s].pc = "prime_set" /\ wk'[s].pc = "top_start"

\* The step is the clearScanState of a DELETE.
Clearing == env.del = "idle" /\ env'.del = "unlock"

PathSet(state) == {state.scannedPaths[i] : i \in 1..Len(state.scannedPaths)}

\* C17: within an epoch, a change of the persisted checkpoint never lowers
\* scanedMusicFile, scanedFolder or scannedTopLevelFolders and never drops a
\* path from scannedPaths.
C17_MonotoneProgress ==
  [][(cp.present /\ cp' # cp /\ ~Priming /\ ~Clearing) =>
       /\ cp'.scanedMusicFile >= cp.scanedMusicFile
       /\ cp'.scanedFolder >= cp.scanedFolder
       /\ cp'.scannedTopLevelFolders >= cp.scannedTopLevelFolders
       /\ PathSet(cp) \subseteq PathSet(cp')]_vars

\* C18: a step that changes a field of the persisted checkpoint, made when
\* Date.now() is past the checkpoint's lastUpdate, changes lastUpdate too
\* (the currentPath update and the error / isScanning update included).
C18_LastUpdateRefreshed ==
  [][(cp.present /\ cp' # cp /\ clock > cp.lastUpdate) =>
       cp'.lastUpdate # cp.lastUpdate]_vars

\* The versions of the data frames of a stream, in the order written.
DataVersions(out) ==
  LET data == SelectSeq(out, LAMBDA f : f.kind = "data")
  IN  [i \in 1..Len(data) |-> data[i].version]

\* The step writes a frame to the stream.
Emits == Len(sse'.out) = Len(sse.out) + 1

Emitted == sse'.out[Len(sse'.out)]

LastData(out) ==
  IF DataVersions(out) = <<>> THEN 0 ELSE DataVersions(out)[Len(DataVersions(out))]

\* C19: a data frame is written only with a lastUpdate that differs from the
\* lastUpdate of the last data frame written; a send that reads the same
\* lastUpdate writes nothing, so between two such reads only keep-alive
\* frames appear.
C19_NoDuplicateFrame ==
  [][/\ (Emits /\ Emitted.kind = "data") =>
          /\ Emitted.version # LastData(sse.out)
          /\ Emitted.version # 0
     /\ \A i \in 1..Len(sse.reads) :
          (sse.pc = "running" /\ sse.reads[i] = LastData(sse.out)
           /\ sse'.reads = Without(sse.reads, i) /\ sse.reads[i] # 0)
          => DataVersions(sse'.out) = DataVersions(sse.out)]_vars

\* The stream carries two data frames, and a later send that read the version
\* of the last one has written nothing.
C19_Witness ==
  /\ Len(DataVersions(sse.out)) >= 2
  /\ sse.same /\ sse.reads = <<>> /\ ~sse.isClosed

\* The subscriber of the stream is gone.
Disconnected == sse.pc # "none" /\ ~sse.usable

\* C20: once the subscriber has disconnected, by cancellation or by a write
\* that fails, also during the initial checkpoint read, eventually start has
\* returned and neither the poll timer nor the keep-alive timer is running.
C20_TimersTornDown ==
  Disconnected ~>
    (sse.pc = "running" /\ ~sse.pollInterval /\ ~sse.keepAliveInterval)

\* The step is the return of clearScanState: its last await has ended.
ClearReturns == env.del = "unlock" /\ env'.del = "idle"

\* C21: when clearScanState returns, with either storage backend, getScanState
\* returns no checkpoint and the scan lock does not exist.
C21_ClearLeavesNothing ==
  [][ClearReturns => (~cp'.present /\ lock' = NoLock)]_vars

\* The step is the return of a settings request that changed musicRootPath.
PutReturnsCleared ==
  settings.put.pc # "done" /\ settings'.put.pc = "done" /\ settings'.put.cleared

\* The step is a step of a settings request that found musicRootPath unchanged.
PutUnchangedStep ==
  /\ settings'.put # settings.put
  /\ settings.put.pc \in {"read", "write"}
  /\ ~settings'.put.changing

ResumeReads(s) ==
  rq[s].kind = "resume" /\ rq[s].pc = "read" /\ rq'[s].pc # "read"

\* C23: a resume request that finds no checkpoint, or a checkpoint whose
\* isScanning is false, answers "No active scan to resume", starts no worker,
\* acquires no lock and leaves checkpoint, lock and cache as they are.
C23_ResumeNoOp ==
  [][\A s \in Slots :
       (ResumeReads(s) /\ (~cp.present \/ ~cp.isScanning)) =>
          /\ rq'[s].pc = "done" /\ rq'[s].resp = MsgNoActive /\ ~rq'[s].spawned
          /\ UNCHANGED <<cp, lock, cache, wk>>]_vars

C23_Witness ==
  \E s \in Slots :
    /\ rq[s].kind = "resume" /\ rq[s].pc = "done" /\ rq[s].resp = MsgNoActive
    /\ cp.present /\ ~cp.isScanning /\ cp.scannedTopLevelFolders > 0
    /\ ~Active(s) /\ lock = NoLock

\* The process died while a worker held the scan lock: the lock is there and
\* nothing is running.
CrashedHoldingLock == lock # NoLock /\ Quiet

\* C24: after a worker died holding the scan lock, the lock eventually
\* disappears by itself, so that later requests are not refused for it.
C24_LockSelfExpires == CrashedHoldingLock ~> (lock = NoLock)

\* The step is the death of the server process, not the end of a run.
ProcessDies ==
  /\ budget'.fault < budget.fault
  /\ \A x \in Slots : wk'[x] = IdleW /\ rq'[x].pc \in {"idle", "done"}

\* C25: the step that ends a worker's run, however the run went, leaves the
\* scan lock absent; and the request that starts a worker has its response in
\* the step that starts it, the worker still having its whole run before it.
C25_LockReleasedAtEnd ==
  [][\A s \in Slots :
       /\ (Active(s) /\ wk'[s].pc = "idle" /\ ~ProcessDies) => lock' = NoLock
       /\ (~rq[s].spawned /\ rq'[s].spawned) =>
            rq'[s].pc = "done" /\ wk'[s].pc \in {"prime_list", "top_start"}]_vars

\* A fresh run whose root listing failed has ended and its lock is gone.
C25_Witness ==
  /\ backend = "file" /\ ~cp.present /\ lock = NoLock
  /\ rq[1].spawned /\ rq[1].pc = "done" /\ ~Active(1)
  /\ budget.fault < MaxFault

\* C26: whatever one user's requests and crawl steps store or delete, every
\* entry of another user stays as it is, so that the other user's reads return
\* what they returned before.
C26_UsersIsolated ==
  [][\A u \in Users :
       disk'.by # u =>
         \A kind \in Kinds :
           ReadEntry(disk', backend, u, kind) = ReadEntry(disk, backend, u, kind)]_vars

\* User A has cleared while user B's checkpoint, lock and cache are in place.
C26_Witness ==
  /\ disk.by = "A"
  /\ ReadEntry(disk, backend, "A", "scan-state") = ClearedEntry(backend)
  /\ ReadEntry(disk, backend, "A", "scan:lock") = NoEntry
  /\ ReadEntry(disk, backend, "B", "scan-state") = "v2"
  /\ ReadEntry(disk, backend, "B", "scan:lock") = "v1"
  /\ ReadEntry(disk, backend, "B", "music-cache") = "v1"
  /\ ReadEntry(disk, backend, "B", "settings") = "v1"

\* Worker s is inside scanFolderRecursive: the traversal of a top-level
\* subtree is in progress.
Traversing(s) == wk[s].pc \in {"bfs_list", "bfs_read", "bfs_write"}

\* C27: at no time are two traversals of top-level subtrees, of different
\* subtrees or of the same one, in progress for the user.
C27_OneTraversalAtATime == Cardinality({s \in Slots : Traversing(s)}) <= 1

\* The step in which worker s starts on the top-level folder at its index.
StartsFolder(s) == wk[s].pc = "pre_write" /\ wk'[s].tried # wk[s].tried

\* C28: inside an epoch no step changes the persisted topLevelFoldersPaths or
\* totalTopLevelFolders, and a worker takes the top-level folders in increasing
\* index order of the persisted list.
C28_WorkListFixed ==
  [][/\ (cp.present /\ ~cp.blank /\ cp'.present /\ ~Priming /\ ~Clearing) =>
          /\ cp'.topLevelFoldersPaths = cp.topLevelFoldersPaths
          /\ cp'.totalTopLevelFolders = cp.totalTopLevelFolders
     /\ \A s \in Slots :
          StartsFolder(s) =>
            /\ \A j \in wk[s].tried : j < wk[s].index
            /\ wk[s].index < Len(cp'.topLevelFoldersPaths)
            /\ wk[s].paths[wk[s].index + 1] = cp'.topLevelFoldersPaths[wk[s].index + 1]]_vars

\* The name ends with a dot followed by an extension of the allow list, in
\* upper or lower case.
EndsWithAllowed(name) ==
  \E e \in AllowList :
    /\ Len(name) > Len(e)
    /\ name[Len(name) - Len(e)] = "."
    /\ toLowerCase(SubSeq(name, Len(name) - Len(e) + 1, Len(name))) = e

Kept(name) == \E i \in 1..Len(call.kept) : call.kept[i] = name

\* C29: the filter keeps a listed file exactly when its name ends with a dot
\* and an allowed extension, whatever the case; of a.MP3, b.txt, c.Flac,
\* d.exe it keeps a.MP3 and c.Flac.
C29_ExtensionFilter ==
  call.done =>
    /\ \A i \in 1..Len(call.names) :
         Kept(call.names[i]) <=> EndsWithAllowed(call.names[i])
    /\ call.names = ExampleNames => call.kept = <<ExampleNames[1], ExampleNames[3]>>

NoDuplicates(entries) ==
  \A i, j \in 1..Len(entries) : entries[i] = entries[j] => i = j

C31_WorkedExample ==
  remote = ExampleStore =>
    \A s \in Slots :
      /\ (wk[s].pc = "top_start" /\ wk[s].from = "fresh") =>
           /\ cp.totalTopLevelFolders = 2
           /\ cp.topLevelFoldersPaths = << <<"Rock">>, <<"Jazz">> >>
           /\ cache[Root].present /\ cache[Root].files = <<>>
           /\ cache[Root].folders = << [name |-> "Rock", path |-> Root],
                                       [name |-> "Jazz", path |-> Root] >>
      /\ (rq[s].pc = "done" /\ rq[s].spawned /\ ~Active(s)) =>
           /\ cp.scanedMusicFile = 1
           /\ cp.scannedTopLevelFolders = 2
           /\ ~cp.isScanning

\* The crawl of the example library has ended.
C31_Witness ==
  /\ remote = ExampleStore /\ Quiet /\ rq[1].spawned
  /\ cp.present /\ cp.scanedMusicFile = 1 /\ cp.scannedTopLevelFolders = 2
  /\ Len(cache[<<"Rock">>].files) = 1 /\ cache[<<"Jazz">>].present

\* C32: a read of the cache made while a write replaces an existing record
\* returns the previous text or the new one, never nothing, on every path of
\* the write.
C32_AtomicReplace ==
  \A o \in io.seen :
    (o.prev # NoEntry /\ o.during \notin {"idle", "done"}) => o.got \in {o.prev, o.new}

\* C33: when two concurrent updates of different fields of one key have both
\* returned, the stored document has both fields.
C33_NoLostUpdate ==
  (\A i \in Callers : io.rmw[i].pc = "done") =>
    \A i \in Callers : io.rmw[i].field \in io.doc[io.rmw[i].key]


\* C34: with no crash of the server, a persisted checkpoint with isScanning =
\* true has a live crawl worker, or a request on its way to starting one.
C34_ScanningHasWorker ==
  (cp.present /\ cp.isScanning) => \E s \in Slots : Active(s) \/ InFlight(s)


\* C35: while a crawl worker runs, the scan lock exists and is the one that
\* worker acquired: no other worker's release and no expiry takes it away.
C35_LockHeldWhileCrawling ==
  \A s \in Slots : Active(s) => lock = s


\* The state has been cleared during the crawl of the only request sent so far.
ClearedDuringCrawl == env.clears < MaxClear /\ budget.issue = MaxIssue - 1

\* C36: after a clear during a crawl and until the next startBackground is
\* sent, no step writes the checkpoint or a cache record: the checkpoint stays
\* as the clear left it.
C36_NoWriteAfterClear ==
  [][(ClearedDuringCrawl /\ budget'.issue = budget.issue /\ ~Clearing) =>
       (cp' = cp /\ cache' = cache)]_vars


\* C37: in every persisted checkpoint scanedFolder is the number of distinct
\* paths of scannedPaths and scanedMusicFile the number of audio files of those
\* paths, also after a crash and a resume and after the retry of a subtree.
C37_CountersMatchPaths ==
  (cp.present /\ ~cp.blank) =>
    /\ cp.scanedFolder = Cardinality(PathSet(cp))
    /\ cp.scanedMusicFile = AudioCount(remote, PathSet(cp))


\* C38: the lastUpdate values of the data frames of a subscription are strictly
\* increasing in the order the frames were written, also when polls overlap.
C38_FramesIncrease ==
  \A i, j \in 1..Len(DataVersions(sse.out)) :
    i < j => DataVersions(sse.out)[i] < DataVersions(sse.out)[j]


\* The tracks of the pages received so far, in the order received.
RECURSIVE Received(_)
Received(pages) ==
  IF pages = <<>> THEN <<>> ELSE Head(pages).tracks \o Received(Tail(pages))

\* The ids of the files of the cached paths.
CachedIds(entries) ==
  UNION {{entries[e].files[k].id : k \in 1..Len(entries[e].files)} : e \in 1..Len(entries)}

Holds(entry, id) == \E k \in 1..Len(entry.files) : entry.files[k].id = id

\* The first cached path that has a file with the id.
FirstPathOf(entries, id) ==
  entries[CHOOSE e \in 1..Len(entries) :
            /\ Holds(entries[e], id)
            /\ \A d \in 1..(e - 1) : ~Holds(entries[d], id)].path

\* C39: over an unchanged cache, the pages from cursor 0 to the page whose
\* nextCursor is null hold every cached track id exactly once, each with the
\* first cached path that has it; a page has at most limit tracks, limit being
\* the requested one clamped to 50..1000; and nextCursor is null exactly on the
\* page that reaches the end of the list.
C39_PagesCoverOnce ==
  call # NoFilter =>
    LET got == Received(call.pages)
        ids == CachedIds(call.entries)
    IN  /\ \A i, j \in 1..Len(got) : i # j => got[i].id # got[j].id
        /\ \A i \in 1..Len(got) :
             got[i].id \in ids /\ got[i].folder = FirstPathOf(call.entries, got[i].id)
        /\ call.done => {got[i].id : i \in 1..Len(got)} = ids
        /\ \A k \in 1..Len(call.pages) :
             LET page == call.pages[k]
             IN  /\ Len(page.tracks) <= page.limit
                 /\ page.limit \in MinLimit..MaxLimit
                 /\ (call.limitParam.number /\ call.limitParam.n \in MinLimit..MaxLimit)
                      => page.limit = call.limitParam.n
                 /\ (page.nextCursor = Null) <=>
                      (page.offset + Len(page.tracks) = Cardinality(ids))

\* The 130 tracks of a cache with ids under two paths have been received in
\* three pages of a limit raised to 50.
C39_Witness ==
  /\ call # NoFilter /\ call.done
  /\ call.entries = LargeCache /\ call.limitParam = Num(1)
  /\ Len(call.pages) = 3 /\ Len(Received(call.pages)) = 130


\* The tasks submitted for a path, in submission order.
TasksOf(filePath) ==
  {k \in 1..Len(io.fq.tasks) : io.fq.tasks[k].path = filePath}

\* C40: the tasks submitted for one path run one at a time and in submission
\* order, a task that has failed lets the next one run, and once every task
\* submitted for a path has finished and its caller has returned, the queue map
\* has no entry for the path.
C40_QueueSerialisesAndCleans ==
  \A filePath \in FilePaths :
    /\ Cardinality({k \in TasksOf(filePath) : io.fq.tasks[k].state = "running"}) <= 1
    /\ \A j, k \in TasksOf(filePath) :
         (j < k /\ io.fq.tasks[k].state # "queued") => io.fq.tasks[j].state = "ended"
    /\ \A j, k \in TasksOf(filePath) :
         (j < k /\ io.fq.tasks[j].state = "ended" /\ io.fq.tasks[j].fails
          /\ io.fq.tasks[k].state = "queued"
          /\ \A i \in TasksOf(filePath) : (j < i /\ i < k) => io.fq.tasks[i].state = "ended")
           => ENABLED TaskStarts(k)
    /\ (TasksOf(filePath) # {} /\ \A k \in TasksOf(filePath) : io.fq.tasks[k].returned)
         => io.fq.map[filePath] = NoPromise

====
